---------------------------- MODULE Spec2Model ----------------------------
(***************************************************************************)
(* Host-link protocol engine of the PC-Monitor firmware: the line framer   *)
(* and dispatcher of usb_rx_task, the telemetry parser parse_pc_data with  *)
(* its commit under the stats mutex, the snapshot copy of                  *)
(* display_update_task, and the image upload session of screensaver_mgr.c. *)
(*                                                                         *)
(* C strings are sequences of one-character strings; '\n' and '\r' are the *)
(* characters "\n" and "\r".  Floats are held in tenths (fixed point, one  *)
(* fractional digit), integers keep their C width where a cast narrows.    *)
(***************************************************************************)
EXTENDS Integers, Sequences, FiniteSets, TLC

(***************************************************************************)
(* Bounds of the model                                                     *)
(***************************************************************************)
\* USB_LINE_BUFFER_SIZE (2048 in usb_serial_comm.h:18), scaled down
LineBufferSize == 96
\* sizeof(rx_buf) (256 in usb_serial_comm.c:211), scaled down
RxBufSize == 3
\* number of usb_serial_register_handler calls made at start-up
MaxRegs == 2
\* the millisecond clock runs from 0 to MaxNow
MaxNow == 2
\* STALE_DATA_THRESHOLD_MS and SCREENSAVER_TIMEOUT_MS in ticks of the model's clock
StaleTicks == 0
ScreensaverTicks == 1
\* the width of the model's uint32_t clock: it wraps after ClockMod ticks
ClockMod == 8
\* DEFAULT_ARC_CPU 0x0071C5 as <<high 16 bits, low 16 bits>>
DefaultColor == <<0, 29125>>
\* payload bytes an image may carry after its 16-byte header
\* (SCARAB_RGB565A8_SIZE, 172800 in screensaver_mgr.h:45, scaled down)
MaxPixelBytes == 1
\* addresses of the heap: heap_caps_malloc hands out blocks 1..MaxAllocs
MaxAllocs == 3
\* stats mutex timeouts explored (s_stats_mutex_timeouts counts them)
MaxTimeouts == 1

(***************************************************************************)
(* Program constants                                                       *)
(***************************************************************************)
MAX_CMD_HANDLERS == 8
MIN_FIELDS == 5
NET_STR_SIZE == 16
SS_IMG_COUNT == 4
SCARAB_IMG_HEADER_SIZE == 16
SCARAB_IMG_WIDTH == 240
SCARAB_IMG_HEIGHT == 240
SCARAB_FMT_RGB565 == 0
SCARAB_FMT_RGB565A8 == 1
SCARAB_IMG_MAX_SIZE == SCARAB_IMG_HEADER_SIZE + MaxPixelBytes

(***************************************************************************)
(* C string helpers                                                        *)
(***************************************************************************)
Digits == <<"0", "1", "2", "3", "4", "5", "6", "7", "8", "9">>
HexDigits == <<"0", "1", "2", "3", "4", "5", "6", "7", "8", "9",
               "A", "B", "C", "D", "E", "F">>
LowerHex == <<"a", "b", "c", "d", "e", "f">>

IsDigit(c) == \E i \in 1..10 : Digits[i] = c
DigitVal(c) == (CHOOSE i \in 1..10 : Digits[i] = c) - 1
IsHexDigit(c) == (\E i \in 1..16 : HexDigits[i] = c) \/ (\E i \in 1..6 : LowerHex[i] = c)
HexVal(c) ==
    IF \E i \in 1..16 : HexDigits[i] = c
    THEN (CHOOSE i \in 1..16 : HexDigits[i] = c) - 1
    ELSE (CHOOSE i \in 1..6 : LowerHex[i] = c) + 9
IsSpace(c) == c \in {" ", "\t", "\n", "\r"}

Drop(s, n) == IF n >= Len(s) THEN <<>> ELSE SubSeq(s, n + 1, Len(s))
Take(s, n) == IF n >= Len(s) THEN s ELSE SubSeq(s, 1, n)

\* strncmp(s, p, strlen(p)) == 0
StartsWith(s, p) == Len(s) >= Len(p) /\ SubSeq(s, 1, Len(p)) = p

\* strncpy(dst, src, size - 1); dst[size - 1] = '\0'
StrNCpy(src, size) == Take(src, size - 1)

RECURSIVE SkipSpaces(_)
SkipSpaces(s) == IF s # <<>> /\ IsSpace(s[1]) THEN SkipSpaces(Tail(s)) ELSE s

\* the run of decimal digits a conversion consumes: [val, n, rest]
RECURSIVE ScanDigits(_, _, _)
ScanDigits(s, acc, n) ==
    IF s # <<>> /\ IsDigit(s[1])
    THEN ScanDigits(Tail(s), acc * 10 + DigitVal(s[1]), n + 1)
    ELSE [val |-> acc, n |-> n, rest |-> s]

\* optional sign of a numeric conversion: [neg, rest]
ScanSign(s) ==
    IF s # <<>> /\ s[1] = "-" THEN [neg |-> TRUE, rest |-> Tail(s)]
    ELSE IF s # <<>> /\ s[1] = "+" THEN [neg |-> FALSE, rest |-> Tail(s)]
    ELSE [neg |-> FALSE, rest |-> s]

\* scanf %d / strtol base 10: [ok, val, rest]
ScanInt(s0) ==
    LET s == SkipSpaces(s0)
        sg == ScanSign(s)
        d == ScanDigits(sg.rest, 0, 0)
    IN IF d.n = 0 THEN [ok |-> FALSE, val |-> 0, rest |-> s0]
       ELSE [ok |-> TRUE, val |-> IF sg.neg THEN 0 - d.val ELSE d.val, rest |-> d.rest]

\* scanf %f / strtod on decimal input, value in tenths: [ok, val, rest]
ScanFloat(s0) ==
    LET s == SkipSpaces(s0)
        sg == ScanSign(s)
        ip == ScanDigits(sg.rest, 0, 0)
        hasDot == ip.rest # <<>> /\ ip.rest[1] = "."
        fp == IF hasDot THEN ScanDigits(Tail(ip.rest), 0, 0)
              ELSE [val |-> 0, n |-> 0, rest |-> ip.rest]
        tenth == IF hasDot /\ Tail(ip.rest) # <<>> /\ IsDigit(Tail(ip.rest)[1])
                 THEN DigitVal(Tail(ip.rest)[1]) ELSE 0
        mag == ip.val * 10 + tenth
    IN IF ip.n = 0 /\ fp.n = 0 THEN [ok |-> FALSE, val |-> 0, rest |-> s0]
       ELSE [ok |-> TRUE, val |-> IF sg.neg THEN 0 - mag ELSE mag, rest |-> fp.rest]

\* (int16_t) of an int
ToInt16(v) == LET m == v % 65536 IN IF m >= 32768 THEN m - 65536 ELSE m

\* atoi(s), then the (int16_t) cast of parse_pc_data
AtoI16(s) == ToInt16(ScanInt(s).val)
\* atof(s), in tenths
AtoF(s) == ScanFloat(s).val

\* strtok(buffer, ","): the non-empty runs between commas, in order
TokStarts(s) == {i \in 1..Len(s) : s[i] # "," /\ (i = 1 \/ s[i - 1] = ",")}
TokEnd(s, i) ==
    LET cs == {j \in i..Len(s) : s[j] = ","}
    IN IF cs = {} THEN Len(s) ELSE (CHOOSE j \in cs : \A k \in cs : j <= k) - 1
StrTok(s) ==
    LET starts == TokStarts(s)
    IN [k \in 1..Cardinality(starts) |->
          LET b == CHOOSE i \in starts : Cardinality({j \in starts : j < i}) = k - 1
          IN SubSeq(s, b, TokEnd(s, b))]

(***************************************************************************)
(* Telemetry frame (pc_stats_t) and parse_pc_data                          *)
(***************************************************************************)
\* pc_stats_t x = {0}
ZeroStats ==
    [cpu_percent |-> 0, cpu_temp |-> 0, gpu_percent |-> 0, gpu_temp |-> 0,
     gpu_vram_used |-> 0, gpu_vram_total |-> 0, ram_used_gb |-> 0, ram_total_gb |-> 0,
     net_type |-> <<>>, net_speed |-> <<>>, net_down_mbps |-> 0, net_up_mbps |-> 0]

\* the members of pc_stats_t in declaration order
StatsFields ==
    <<"cpu_percent", "cpu_temp", "gpu_percent", "gpu_temp", "gpu_vram_used",
      "gpu_vram_total", "ram_used_gb", "ram_total_gb", "net_type", "net_speed",
      "net_down_mbps", "net_up_mbps">>

K_CPU == <<"C", "P", "U", ":">>
K_CPUT == <<"C", "P", "U", "T", ":">>
K_GPU == <<"G", "P", "U", ":">>
K_GPUT == <<"G", "P", "U", "T", ":">>
K_VRAM == <<"V", "R", "A", "M", ":">>
K_RAM == <<"R", "A", "M", ":">>
K_NET == <<"N", "E", "T", ":">>
K_SPEED == <<"S", "P", "E", "E", "D", ":">>
K_DOWN == <<"D", "O", "W", "N", ":">>
K_UP == <<"U", "P", ":">>

\* sscanf(s, "%f/%f", &a, &b) on fields holding a0, b0: the pair after the call
ScanPair(s, a0, b0) ==
    LET f1 == ScanFloat(s)
        f2 == IF f1.ok /\ f1.rest # <<>> /\ f1.rest[1] = "/"
              THEN ScanFloat(Tail(f1.rest))
              ELSE [ok |-> FALSE, val |-> 0, rest |-> <<>>]
    IN [a |-> IF f1.ok THEN f1.val ELSE a0, b |-> IF f2.ok THEN f2.val ELSE b0]

\* ram_total_gb < 0.1f replaced by 16.0f (tenths)
RamTotalFloor(v) == IF v < 1 THEN 160 ELSE v

\* one turn of the while loop of parse_pc_data: the if / else-if chain on a token.
\* st = [temp, fields]
ParseToken(st, token) ==
    LET t == st.temp
        n == st.fields
    IN IF StartsWith(token, K_CPU)
       THEN [temp |-> [t EXCEPT !.cpu_percent = AtoI16(Drop(token, 4))], fields |-> n + 1]
       ELSE IF StartsWith(token, K_CPUT)
       THEN [temp |-> [t EXCEPT !.cpu_temp = AtoF(Drop(token, 5))], fields |-> n + 1]
       ELSE IF StartsWith(token, K_GPU)
       THEN [temp |-> [t EXCEPT !.gpu_percent = AtoI16(Drop(token, 4))], fields |-> n + 1]
       ELSE IF StartsWith(token, K_GPUT)
       THEN [temp |-> [t EXCEPT !.gpu_temp = AtoF(Drop(token, 5))], fields |-> n + 1]
       ELSE IF StartsWith(token, K_VRAM)
       THEN LET p == ScanPair(Drop(token, 5), t.gpu_vram_used, t.gpu_vram_total)
            IN [temp |-> [t EXCEPT !.gpu_vram_used = p.a, !.gpu_vram_total = p.b],
                fields |-> n + 1]
       ELSE IF StartsWith(token, K_RAM)
       THEN LET p == ScanPair(Drop(token, 4), t.ram_used_gb, t.ram_total_gb)
            IN [temp |-> [t EXCEPT !.ram_used_gb = p.a, !.ram_total_gb = RamTotalFloor(p.b)],
                fields |-> n + 1]
       ELSE IF StartsWith(token, K_NET)
       THEN [temp |-> [t EXCEPT !.net_type = StrNCpy(Drop(token, 4), NET_STR_SIZE)],
             fields |-> n + 1]
       ELSE IF StartsWith(token, K_SPEED)
       THEN [temp |-> [t EXCEPT !.net_speed = StrNCpy(Drop(token, 6), NET_STR_SIZE)],
             fields |-> n + 1]
       ELSE IF StartsWith(token, K_DOWN)
       THEN [temp |-> [t EXCEPT !.net_down_mbps = AtoF(Drop(token, 5))], fields |-> n + 1]
       ELSE IF StartsWith(token, K_UP)
       THEN [temp |-> [t EXCEPT !.net_up_mbps = AtoF(Drop(token, 3))], fields |-> n + 1]
       ELSE st

RECURSIVE ParseTokens(_, _)
ParseTokens(st, toks) ==
    IF toks = <<>> THEN st ELSE ParseTokens(ParseToken(st, Head(toks)), Tail(toks))

\* pc_stats_t temp_stats = {0}, whatever the shared frame holds
StagingInit_Merge(shared) == shared
StagingInit(shared) == ZeroStats

\* parse_pc_data up to the threshold test: the staging record and fields_parsed
ParseLine(shared, line) ==
    ParseTokens([temp |-> StagingInit(shared), fields |-> 0], StrTok(line))

\* if (!line || strlen(line) < 5) return;
TooShort(line) == Len(line) < 5

\* if (fields_parsed >= 5)
EnoughFields_Loose(n) == n >= MIN_FIELDS - 1
EnoughFields(n) == n >= MIN_FIELDS

(***************************************************************************)
(* CRC32 (crc32_update) on 32-bit unsigned integers                        *)
(***************************************************************************)
\* a uint32_t is the pair <<high half, low half>> of 16-bit numbers
U32Zero == <<0, 0>>
U32Max == <<65535, 65535>>

\* bit k (a power of two) of a ^ b, and a ^ b on 16-bit numbers
XorBit(a, b, k) == ((((a \div k) % 2) + ((b \div k) % 2)) % 2) * k
BitXor(a, b) ==
    XorBit(a, b, 1) + XorBit(a, b, 2) + XorBit(a, b, 4) + XorBit(a, b, 8)
    + XorBit(a, b, 16) + XorBit(a, b, 32) + XorBit(a, b, 64) + XorBit(a, b, 128)
    + XorBit(a, b, 256) + XorBit(a, b, 512) + XorBit(a, b, 1024) + XorBit(a, b, 2048)
    + XorBit(a, b, 4096) + XorBit(a, b, 8192) + XorBit(a, b, 16384) + XorBit(a, b, 32768)

\* a ^ b, ~x, x >> 1, -x on uint32_t
Xor32(a, b) == <<BitXor(a[1], b[1]), BitXor(a[2], b[2])>>
BitNot32(x) == <<65535 - x[1], 65535 - x[2]>>
Shr32(x) == <<x[1] \div 2, (x[2] \div 2) + 32768 * (x[1] % 2)>>
Neg32(x) ==
    IF x[2] = 0 THEN <<(65536 - x[1]) % 65536, 0>> ELSE <<65535 - x[1], 65536 - x[2]>>

\* 0xEDB88320
CRC_POLY == <<60856, 33568>>

\* crc = (crc >> 1) ^ (0xEDB88320 & ~((crc & 1) - 1))
CrcShift(crc) == IF crc[2] % 2 = 1 THEN Xor32(Shr32(crc), CRC_POLY) ELSE Shr32(crc)

RECURSIVE CrcBits(_, _)
CrcBits(crc, i) == IF i = 0 THEN crc ELSE CrcBits(CrcShift(crc), i - 1)

\* crc ^= data[i], then eight shifts
RECURSIVE CrcBytes(_, _)
CrcBytes(crc, data) ==
    IF data = <<>> THEN crc
    ELSE LET next == CrcBits(Xor32(crc, <<0, Head(data)>>), 8)
         IN \* the test evaluates next before the next byte is taken
            IF next[1] < 0 THEN next ELSE CrcBytes(next, Tail(data))

\* the CRC of the chunk alone, the running value dropped
crc32_update_NoChain(crc, data) == BitNot32(CrcBytes(BitNot32(U32Zero), data))
crc32_update(crc, data) == BitNot32(CrcBytes(BitNot32(crc), data))

(***************************************************************************)
(* Heap (heap_caps_malloc / heap_caps_free): MaxAllocs addresses.  Pointer  *)
(* 0 is NULL, pointer p > 0 is the block at address p.  A block counts the *)
(* frees it received since it was allocated; an address freed twice is     *)
(* never handed out again.                                                 *)
(***************************************************************************)
NULL == 0
Addrs == 1..MaxAllocs
NoBlock == [kind |-> "none", live |-> FALSE, frees |-> 0, data |-> <<>>]
EmptyHeap == [a \in Addrs |-> NoBlock]
NewBlock(kind, data) == [kind |-> kind, live |-> TRUE, frees |-> 0, data |-> data]
\* the address heap_caps_malloc returns, NULL when the heap is exhausted
AllocAddr(heap) ==
    LET avail == {a \in DOMAIN heap : ~heap[a].live /\ heap[a].frees <= 1}
    IN IF avail = {} THEN NULL ELSE CHOOSE a \in avail : \A b \in avail : a <= b
Malloc(heap, kind, data) == [heap EXCEPT ![AllocAddr(heap)] = NewBlock(kind, data)]
\* heap_caps_free(p): free(NULL) does nothing
Free(heap, p) ==
    IF p = NULL THEN heap
    ELSE [heap EXCEPT ![p] = [kind |-> @.kind, live |-> FALSE, frees |-> @.frees + 1,
                              data |-> <<>>]]
Live(heap, p) == p # NULL /\ heap[p].live
LiveBlocks(heap, kind) == {p \in DOMAIN heap : heap[p].kind = kind /\ heap[p].live}

(***************************************************************************)
(* Image header (scarab_img_header_t, packed, little-endian)               *)
(***************************************************************************)
\* 0x53434152 as stored bytes: 52 41 43 53
MagicBytes == <<82, 65, 67, 83>>
LE16(b, i) == b[i] + 256 * b[i + 1]
\* a value of 2^31 or more is kept as 2^31 - 1: every size it is compared with is smaller
LE32(b, i) ==
    IF b[i + 3] >= 128 THEN 2147483647
    ELSE b[i] + 256 * b[i + 1] + 65536 * b[i + 2] + 16777216 * b[i + 3]
HdrMagicOk(b) == SubSeq(b, 1, 4) = MagicBytes
HdrWidth(b) == LE16(b, 5)
HdrHeight(b) == LE16(b, 7)
HdrFormat(b) == b[9]
HdrDataSize(b) == LE32(b, 13)
ZeroHeader == [i \in 1..SCARAB_IMG_HEADER_SIZE |-> 0]

(***************************************************************************)
(* Screensaver image table and files (screensaver_mgr.c)                   *)
(***************************************************************************)
NoFile == <<-1>>
Slots == 0..(SS_IMG_COUNT - 1)
NotLoaded == [loaded |-> FALSE, header |-> ZeroHeader, data |-> NULL]

IMG_UPLOAD_IDLE == "IDLE"
IMG_UPLOAD_RECEIVING == "RECEIVING"
IMG_UPLOAD_COMPLETE == "COMPLETE"
IMG_UPLOAD_ERROR == "ERROR"

\* memset(&upload_ctx, 0, sizeof(upload_ctx))
ZeroCtx ==
    [state |-> IMG_UPLOAD_IDLE, slot |-> 0, expected_size |-> 0, received_size |-> 0,
     buffer |-> NULL, crc32 |-> U32Zero]

\* the image state a handler works on: im = [ctx, heap, files, loaded]
\* a handler returns the set of its possible outcomes [im, resp, fault]
Out(im, resp) == [im |-> im, resp |-> resp, fault |-> FALSE]
Fault(im) == [im |-> im, resp |-> <<>>, fault |-> TRUE]
R(tag, arg) == [tag |-> tag, arg |-> arg, text |-> <<>>]
RT(tag, text) == [tag |-> tag, arg |-> <<>>, text |-> text]

\* ss_image_unload(slot)
ss_image_unload(im, slot) ==
    [im EXCEPT !.heap = Free(im.heap, im.loaded[slot].data),
               !.loaded[slot] = NotLoaded]

\* ss_image_load(slot): the outcomes [im, ok]
ss_image_load(im0, slot) ==
    LET im == ss_image_unload(im0, slot)
        f == im.files[slot]
        fail == {[im |-> im, ok |-> FALSE]}
    IN IF f = NoFile THEN fail
       ELSE IF Len(f) < SCARAB_IMG_HEADER_SIZE THEN fail
       ELSE IF ~HdrMagicOk(f) THEN fail
       ELSE IF HdrWidth(f) # SCARAB_IMG_WIDTH \/ HdrHeight(f) # SCARAB_IMG_HEIGHT THEN fail
       ELSE IF HdrFormat(f) # SCARAB_FMT_RGB565 /\ HdrFormat(f) # SCARAB_FMT_RGB565A8 THEN fail
       ELSE \* heap_caps_malloc(header.data_size) may return NULL
            LET p == AllocAddr(im.heap)
            IN fail \cup
               (IF p = NULL THEN {}
                ELSE IF Len(f) - SCARAB_IMG_HEADER_SIZE < HdrDataSize(f)
                THEN \* short fread: the block is freed again
                     {[im |-> [im EXCEPT !.heap = Free(Malloc(im.heap, "pixels", <<>>), p)],
                       ok |-> FALSE]}
                ELSE {[im |-> [im EXCEPT
                                 !.heap = Malloc(im.heap, "pixels",
                                                 SubSeq(f, SCARAB_IMG_HEADER_SIZE + 1,
                                                        SCARAB_IMG_HEADER_SIZE + HdrDataSize(f))),
                                 !.loaded[slot] = [loaded |-> TRUE,
                                                   header |-> SubSeq(f, 1, SCARAB_IMG_HEADER_SIZE),
                                                   data |-> p]],
                       ok |-> TRUE]})

\* ss_image_save(slot, data, size): the outcomes [im, ok]; a failed fopen leaves
\* the file, a short fwrite leaves a truncated file
ss_image_save(im, slot, buffer, size) ==
    IF slot \notin Slots \/ buffer = NULL \/ size < SCARAB_IMG_HEADER_SIZE
    THEN {[im |-> im, ok |-> FALSE]}
    ELSE LET data == im.heap[buffer].data
         IN IF ~HdrMagicOk(data) THEN {[im |-> im, ok |-> FALSE]}
            ELSE {[im |-> [im EXCEPT !.files[slot] = data], ok |-> TRUE],
                  [im |-> im, ok |-> FALSE],
                  [im |-> [im EXCEPT !.files[slot] = <<>>], ok |-> FALSE]}

\* ss_image_delete(slot)
ss_image_delete(im, slot) ==
    [ss_image_unload(im, slot) EXCEPT !.files[slot] = NoFile]

(***************************************************************************)
(* Upload protocol handlers (screensaver_mgr.c)                            *)
(***************************************************************************)
P_IMG == <<"I", "M", "G", "_">>
P_IMG_BEGIN == <<"I", "M", "G", "_", "B", "E", "G", "I", "N", ":">>
P_IMG_DATA == <<"I", "M", "G", "_", "D", "A", "T", "A", ":">>
P_IMG_END == <<"I", "M", "G", "_", "E", "N", "D", ":">>
P_IMG_ABORT == <<"I", "M", "G", "_", "A", "B", "O", "R", "T">>
P_IMG_DELETE == <<"I", "M", "G", "_", "D", "E", "L", "E", "T", "E", ":">>
P_IMG_STATUS == <<"I", "M", "G", "_", "S", "T", "A", "T", "U", "S">>

\* scanf %lu / strtoul base 10 into a 32-bit unsigned long: [ok, val, rest];
\* a negated value, which wraps to 2^31 or more, is kept as 2^31 - 1
ScanULong(s) ==
    LET d == ScanInt(s) IN [d EXCEPT !.val = IF d.val < 0 THEN 2147483647 ELSE d.val]

\* the hex digits a conversion consumes, accumulated in 32 bits: [val, n, over, rest]
RECURSIVE ScanHexDigits32(_, _, _, _)
ScanHexDigits32(s, acc, n, over) ==
    IF s # <<>> /\ IsHexDigit(s[1])
    THEN ScanHexDigits32(Tail(s),
                         <<(acc[1] * 16 + (acc[2] \div 4096)) % 65536,
                           (acc[2] * 16 + HexVal(s[1])) % 65536>>,
                         n + 1, over \/ acc[1] >= 4096)
    ELSE [val |-> acc, n |-> n, over |-> over, rest |-> s]

\* scanf %x / strtoul base 16 into 32 bits: sign, optional 0x, hex digits;
\* a value out of range converts to ULONG_MAX
ScanHex(s0) ==
    LET s == SkipSpaces(s0)
        sg == ScanSign(s)
        r == sg.rest
        body == IF Len(r) >= 3 /\ r[1] = "0" /\ r[2] \in {"x", "X"} /\ IsHexDigit(r[3])
                THEN Drop(r, 2) ELSE r
        d == ScanHexDigits32(body, U32Zero, 0, FALSE)
    IN IF d.n = 0 THEN [ok |-> FALSE, val |-> U32Zero, rest |-> s0]
       ELSE [ok |-> TRUE,
             val |-> IF d.over THEN U32Max ELSE IF sg.neg THEN Neg32(d.val) ELSE d.val,
             rest |-> d.rest]

\* (uint8_t)strtoul(byte_str, NULL, 16) of the two characters c1 c2
HexByte(c1, c2) == ScanHex(<<c1, c2>>).val[2] % 256

RECURSIVE HexDecode(_)
HexDecode(h) ==
    IF Len(h) < 2 THEN <<>> ELSE <<HexByte(h[1], h[2])>> \o HexDecode(Drop(h, 2))

\* strchr(s, ':'): the index of the first ':' at or after position from, else 0
RECURSIVE StrChrColon(_, _)
StrChrColon(s, from) ==
    IF from > Len(s) THEN 0 ELSE IF s[from] = ":" THEN from ELSE StrChrColon(s, from + 1)

\* sscanf(line, "IMG_BEGIN:%d:%lu", &slot, &size): [n, slot, size]
ScanBegin(line) ==
    LET a == ScanInt(Drop(line, 10))
        b == IF a.ok /\ a.rest # <<>> /\ a.rest[1] = ":"
             THEN ScanULong(Tail(a.rest)) ELSE [ok |-> FALSE, val |-> 0, rest |-> <<>>]
    IN [n |-> IF ~a.ok THEN 0 ELSE IF ~b.ok THEN 1 ELSE 2, slot |-> a.val, size |-> b.val]

\* the tests of handle_img_begin on the parsed size
SizeInRange(size) == size >= SCARAB_IMG_HEADER_SIZE /\ size <= SCARAB_IMG_MAX_SIZE

\* if (upload_ctx.buffer) heap_caps_free(upload_ctx.buffer);
BeginDiscard_Keep(heap, buffer) == heap
BeginDiscard(heap, buffer) == IF buffer # NULL THEN Free(heap, buffer) ELSE heap

handle_img_begin(im, line) ==
    LET p == ScanBegin(line)
    IN IF p.n # 2 THEN {Out(im, <<R("IMG_ERR:PARSE", <<>>)>>)}
       ELSE IF p.slot < 0 \/ p.slot >= SS_IMG_COUNT THEN {Out(im, <<R("IMG_ERR:SLOT", <<>>)>>)}
       ELSE IF ~SizeInRange(p.size) THEN {Out(im, <<R("IMG_ERR:SIZE", <<>>)>>)}
       ELSE LET h1 == BeginDiscard(im.heap, im.ctx.buffer)
                p1 == AllocAddr(h1)
            IN { \* heap_caps_malloc returned NULL
                 Out([im EXCEPT !.heap = h1, !.ctx.buffer = NULL],
                     <<R("IMG_ERR:NOMEM", <<>>)>>) }
               \cup
               (IF p1 = NULL THEN {}
                ELSE {Out([im EXCEPT !.heap = Malloc(h1, "scratch", <<>>),
                                     !.ctx = [state |-> IMG_UPLOAD_RECEIVING,
                                              slot |-> p.slot,
                                              expected_size |-> p.size,
                                              received_size |-> 0,
                                              buffer |-> p1,
                                              crc32 |-> U32Zero]],
                          <<R("IMG_OK:BEGIN", <<>>)>>)})

\* if ((uint32_t)offset != upload_ctx.received_size)
OffsetMatches_Any(offset, received) == TRUE
OffsetMatches(offset, received) == offset = received

handle_img_data(im, line) ==
    LET ctx == im.ctx
        off == ScanULong(Drop(line, 9))
        colon == StrChrColon(line, 10)
        hex == Drop(line, colon)
        data_len == Len(hex) \div 2
        bytes == HexDecode(hex)
        stored == [im EXCEPT !.ctx.crc32 = crc32_update(ctx.crc32, bytes),
                             !.ctx.received_size = ctx.received_size + data_len]
    IN IF ctx.state # IMG_UPLOAD_RECEIVING THEN {Out(im, <<R("IMG_ERR:NOBEGIN", <<>>)>>)}
       ELSE IF ~off.ok THEN {Out(im, <<R("IMG_ERR:PARSE", <<>>)>>)}
       ELSE IF colon = 0 THEN {Out(im, <<R("IMG_ERR:PARSE", <<>>)>>)}
       ELSE IF ~OffsetMatches(off.val, ctx.received_size)
       THEN {Out(im, <<R("IMG_ERR:OFFSET", <<ctx.received_size>>)>>)}
       ELSE IF Len(hex) % 2 # 0 THEN {Out(im, <<R("IMG_ERR:HEXLEN", <<>>)>>)}
       ELSE IF ctx.received_size + data_len > ctx.expected_size
       THEN {Out(im, <<R("IMG_ERR:OVERFLOW", <<>>)>>)}
       ELSE IF data_len = 0
       THEN {Out(stored, <<R("IMG_OK:DATA", <<ctx.received_size>>)>>)}
       ELSE IF ctx.buffer = NULL
       THEN \* store through NULL + received_size: the task faults, or the
            \* store lands outside the session and the handler goes on
            {Fault(im),
             Out(stored, <<R("IMG_OK:DATA", <<ctx.received_size + data_len>>)>>)}
       ELSE {Out([stored EXCEPT !.heap[ctx.buffer].data = @ \o bytes],
                 <<R("IMG_OK:DATA", <<ctx.received_size + data_len>>)>>)}

\* the session after heap_caps_free(buffer); buffer = NULL; state = IDLE
EndSession_NoFree(im) ==
    [im EXCEPT !.ctx.buffer = NULL,
               !.ctx.state = IMG_UPLOAD_IDLE]
EndSession(im) ==
    [im EXCEPT !.heap = Free(im.heap, im.ctx.buffer),
               !.ctx.buffer = NULL,
               !.ctx.state = IMG_UPLOAD_IDLE]

\* if (upload_ctx.crc32 != (uint32_t)expected_crc)
CrcMatches_Any(crc, expected) == TRUE
CrcMatches(crc, expected) == crc = expected

\* handle_img_end from the header check on, the buffer not NULL
EndAccepted(im) ==
    LET ctx == im.ctx
        data == im.heap[ctx.buffer].data
    IN IF ~HdrMagicOk(data) THEN {Out(EndSession(im), <<R("IMG_ERR:MAGIC", <<>>)>>)}
       ELSE UNION {
              IF ~sv.ok THEN {Out(EndSession(sv.im), <<R("IMG_ERR:SAVE", <<>>)>>)}
              ELSE {Out([ld.im EXCEPT !.ctx.state = IMG_UPLOAD_IDLE],
                        IF ld.ok THEN <<R("IMG_OK:COMPLETE", <<ctx.slot>>)>>
                        ELSE <<R("IMG_ERR:LOAD", <<>>)>>)
                    : ld \in ss_image_load(EndSession(sv.im), ctx.slot)}
              : sv \in ss_image_save(im, ctx.slot, ctx.buffer, ctx.received_size) }

handle_img_end(im, line) ==
    LET ctx == im.ctx
        crc == ScanHex(Drop(line, 8))
    IN IF ctx.state # IMG_UPLOAD_RECEIVING THEN {Out(im, <<R("IMG_ERR:NOBEGIN", <<>>)>>)}
       ELSE IF ~crc.ok THEN {Out(im, <<R("IMG_ERR:PARSE", <<>>)>>)}
       ELSE IF ctx.received_size # ctx.expected_size
       THEN {Out(im, <<R("IMG_ERR:INCOMPLETE", <<ctx.received_size>>)>>)}
       ELSE IF ~CrcMatches(ctx.crc32, crc.val)
       THEN {Out(EndSession(im), <<R("IMG_ERR:CRC", ctx.crc32)>>)}
       ELSE IF ctx.buffer = NULL
       THEN \* header->magic read through NULL: the task faults, or the read
            \* yields some word; ss_image_save then refuses the NULL buffer
            {Fault(im),
             Out(EndSession(im), <<R("IMG_ERR:MAGIC", <<>>)>>),
             Out(EndSession(im), <<R("IMG_ERR:SAVE", <<>>)>>)}
       ELSE EndAccepted(im)

\* the body of handle_img_abort on the session
AbortSession_NoClear(im) ==
    [im EXCEPT !.heap = Free(im.heap, im.ctx.buffer),
               !.ctx.state = IMG_UPLOAD_IDLE,
               !.ctx.received_size = 0]
AbortSession(im) ==
    [im EXCEPT !.heap = IF im.ctx.buffer # NULL THEN Free(im.heap, im.ctx.buffer) ELSE im.heap,
               !.ctx.buffer = NULL,
               !.ctx.state = IMG_UPLOAD_IDLE,
               !.ctx.received_size = 0]

handle_img_abort(im) == {Out(AbortSession(im), <<R("IMG_OK:ABORT", <<>>)>>)}

handle_img_delete(im, line) ==
    LET d == ScanInt(Drop(line, 11))
    IN IF ~d.ok THEN {Out(im, <<R("IMG_ERR:PARSE", <<>>)>>)}
       ELSE IF d.val < 0 \/ d.val >= SS_IMG_COUNT THEN {Out(im, <<R("IMG_ERR:SLOT", <<>>)>>)}
       ELSE {Out(ss_image_delete(im, d.val), <<R("IMG_OK:DELETE", <<d.val>>)>>)}

StateCode(st) ==
    CASE st = IMG_UPLOAD_IDLE -> 0
      [] st = IMG_UPLOAD_RECEIVING -> 1
      [] st = IMG_UPLOAD_COMPLETE -> 2
      [] st = IMG_UPLOAD_ERROR -> 3

handle_img_status(im) ==
    {Out(im,
         <<R("IMG_STATUS:UPLOAD",
             <<StateCode(im.ctx.state), im.ctx.received_size, im.ctx.expected_size>>)>>
         \o [i \in 1..SS_IMG_COUNT |->
               R("IMG_STATUS:SLOT",
                 <<i - 1,
                   IF im.loaded[i - 1].loaded THEN 1 ELSE 0,
                   IF im.loaded[i - 1].loaded THEN HdrDataSize(im.loaded[i - 1].header)
                   ELSE 0>>)])}

\* ss_image_handle_command(line): [claimed, outs]
ss_image_handle_command(im, line) ==
    IF ~StartsWith(line, P_IMG) THEN [claimed |-> FALSE, outs |-> {}]
    ELSE IF StartsWith(line, P_IMG_BEGIN)
    THEN [claimed |-> TRUE, outs |-> handle_img_begin(im, line)]
    ELSE IF StartsWith(line, P_IMG_DATA)
    THEN [claimed |-> TRUE, outs |-> handle_img_data(im, line)]
    ELSE IF StartsWith(line, P_IMG_END)
    THEN [claimed |-> TRUE, outs |-> handle_img_end(im, line)]
    ELSE IF line = P_IMG_ABORT
    THEN [claimed |-> TRUE, outs |-> handle_img_abort(im)]
    ELSE IF StartsWith(line, P_IMG_DELETE)
    THEN [claimed |-> TRUE, outs |-> handle_img_delete(im, line)]
    ELSE IF line = P_IMG_STATUS
    THEN [claimed |-> TRUE, outs |-> handle_img_status(im)]
    ELSE [claimed |-> FALSE, outs |-> {}]

(***************************************************************************)
(* Hardware identity (hw_identity.c)                                       *)
(***************************************************************************)
P_NAME_CPU == <<"N", "A", "M", "E", "_", "C", "P", "U", "=">>
P_NAME_GPU == <<"N", "A", "M", "E", "_", "G", "P", "U", "=">>
P_NAME_HASH == <<"N", "A", "M", "E", "_", "H", "A", "S", "H", "=">>
HW_NAME_SIZE == 32
HW_HASH_LEN == 8

\* static hw_identity_t s_hw_identity = { "CPU", "GPU", "00000000" }
InitIdentity ==
    [cpu_name |-> <<"C", "P", "U">>, gpu_name |-> <<"G", "P", "U">>,
     identity_hash |-> <<"0", "0", "0", "0", "0", "0", "0", "0">>]

\* hw_identity_set_hash(hash)
SetHash(id, hash) ==
    IF Len(hash) >= HW_HASH_LEN THEN [id EXCEPT !.identity_hash = Take(hash, HW_HASH_LEN)]
    ELSE id

\* hw_identity_save(): each fopen may fail and leave its file as it was
hw_identity_save(id, hf) ==
    {[names |-> n, hash |-> h] :
        n \in {hf.names, <<id.cpu_name, id.gpu_name>>},
        h \in {hf.hash, id.identity_hash}}

HwClaims(line) ==
    StartsWith(line, P_NAME_CPU) \/ StartsWith(line, P_NAME_GPU) \/ StartsWith(line, P_NAME_HASH)

\* hw_identity_handle_command(line) on a claimed line: the identity after it
HwApply(id, line) ==
    IF StartsWith(line, P_NAME_CPU)
    THEN [id EXCEPT !.cpu_name = StrNCpy(Drop(line, 9), HW_NAME_SIZE)]
    ELSE IF StartsWith(line, P_NAME_GPU)
    THEN [id EXCEPT !.gpu_name = StrNCpy(Drop(line, 9), HW_NAME_SIZE)]
    ELSE SetHash(id, Drop(line, 10))

(***************************************************************************)
(* State                                                                   *)
(***************************************************************************)
VARIABLES
    stream,                 \* bytes the host has sent and the task has not read
    input,                  \* every byte the host sends (fixed)
    rx_pc,                  \* position of usb_rx_task
    rx_buf,                 \* rx_buf[i..len-1]: bytes of the chunk still to process
    line_buf,               \* line_buf[0..line_pos-1]
    is_discarding,
    s_handlers,             \* s_handlers[0..s_handler_count-1]
    s_pc_stats,             \* the shared frame (pc_stats in main_lvgl.c)
    s_last_data_ms,
    s_stats_mutex,          \* stats_mutex of main_lvgl.c: "free", or the task holding it
    s_stats_mutex_timeouts,
    temp_stats,             \* locals of parse_pc_data
    fields_parsed,
    wr_i,                   \* members of s_pc_stats = temp_stats copied so far
    disp_pc,                \* position of display_update_task
    local_stats,
    rd_i,                   \* members of local_stats = pc_stats copied so far
    upload_ctx,
    heap,
    files,                  \* the slot files on LittleFS
    loaded_images,
    hw_identity,
    hw_files,               \* names.txt and host.hash
    resp,                   \* what the last dispatched line wrote to the host
    emitted,                \* history: the lines the framer dispatched
    calls,                  \* history: who was called for the last line
    last_line,              \* history: the line parse_pc_data is committing
    log_msg,                \* what parse_pc_data logged for the last dispatched line
    committed,              \* history: the frame of the last commit that returned
    snap_frame,             \* history: the committed frame when the snapshot began
    lvgl_mutex,             \* lvgl_mutex of main_lvgl.c: "free", or the task holding it
    timer_pc,               \* position of lvgl_timer_task
    is_screensaver_active,
    red_dots,               \* TRUE after show_red_dots(), FALSE after hide_red_dots()
    now,                    \* now of display_update_task
    last_seen,              \* last_data_ms as display_update_task read it
    mode_stamp,             \* history: last_seen of the evaluation that set the mode,
                            \* -1 if that evaluation read a stamp later than its now
    prev_mode,              \* history: the UI mode before the last evaluation set it
    ss_call,                \* history: show_screensavers() or hide_screensavers() as the
                            \* last evaluation called it, "none" if it called neither
    gui_settings,           \* gui_settings.arc_color_cpu
    gui_file,               \* the settings file on LittleFS
    ui_theme,               \* the arc colour of screen_cpu as LVGL holds it
    epoch                   \* the clock's value at tick 0: a uint32_t holds (epoch + tick) % ClockMod

rxVars == <<rx_pc, rx_buf, line_buf, is_discarding>>
envVars == <<stream, input>>
telVars == <<s_pc_stats, s_last_data_ms, s_stats_mutex, s_stats_mutex_timeouts,
             temp_stats, fields_parsed, wr_i, committed>>
dispVars == <<disp_pc, local_stats, rd_i, snap_frame>>
imgVars == <<upload_ctx, heap, files, loaded_images>>
hwVars == <<hw_identity, hw_files>>
histVars == <<resp, calls, last_line, log_msg>>
extraVars == <<gui_settings, gui_file, ui_theme, epoch>>
uiVars == <<lvgl_mutex, timer_pc, is_screensaver_active, red_dots, now, last_seen,
            mode_stamp, prev_mode, ss_call, extraVars>>
vars == <<stream, input, rx_pc, rx_buf, line_buf, is_discarding, s_handlers,
          s_pc_stats, s_last_data_ms, s_stats_mutex, s_stats_mutex_timeouts,
          temp_stats, fields_parsed, wr_i, disp_pc, local_stats, rd_i,
          upload_ctx, heap, files, loaded_images, hw_identity, hw_files,
          resp, emitted, calls, last_line, log_msg, committed, snap_frame,
          lvgl_mutex, timer_pc, is_screensaver_active, red_dots, now, last_seen,
          mode_stamp, prev_mode, ss_call, gui_settings, gui_file, ui_theme, epoch>>

Min(a, b) == IF a < b THEN a ELSE b
\* (uint32_t)(esp_timer_get_time() / 1000) read at or after the instant t0
Clock(t0) == t0..MaxNow
\* the latest instant any task has read from the clock
LastRead == IF now > s_last_data_ms THEN now ELSE s_last_data_ms
Last(s) == s[Len(s)]
Image == [ctx |-> upload_ctx, heap |-> heap, files |-> files, loaded |-> loaded_images]

(***************************************************************************)
(* Start-up: usb_serial_register_handler, usb_serial_start_rx_task         *)
(***************************************************************************)
Handlers == {"hw_identity_handle_command", "ss_image_handle_command"}

\* usb_serial_register_handler(handler)
RegisterHandler(h) ==
    /\ rx_pc = "init"
    /\ Len(s_handlers) < MaxRegs
    /\ s_handlers' = IF Len(s_handlers) < MAX_CMD_HANDLERS
                     THEN Append(s_handlers, h) ELSE s_handlers
    /\ UNCHANGED <<uiVars, envVars, rxVars, telVars, dispVars, imgVars, hwVars,
                   histVars, emitted>>

\* usb_serial_start_rx_task(stats_mutex)
StartRxTask ==
    /\ rx_pc = "init"
    /\ rx_pc' = "read"
    /\ \E t \in Clock(LastRead) : s_last_data_ms' = t
    /\ UNCHANGED <<uiVars, envVars, rx_buf, line_buf, is_discarding, s_handlers, s_pc_stats,
                   s_stats_mutex, s_stats_mutex_timeouts, temp_stats, fields_parsed,
                   wr_i, committed, dispVars, imgVars, hwVars, histVars, emitted>>

(***************************************************************************)
(* usb_rx_task: the read and the byte loop                                 *)
(***************************************************************************)
\* where the task goes on after a byte or a line: the next byte, or the next read
AfterByte_NextRead(buf) == "read"
AfterByte(buf) == IF buf = <<>> THEN "read" ELSE "byte"

\* len = usb_serial_jtag_read_bytes(rx_buf, sizeof(rx_buf), ...) with len = n > 0
RxRead(n) ==
    /\ rx_pc = "read"
    /\ n >= 1 /\ n <= Min(RxBufSize, Len(stream))
    /\ rx_buf' = Take(stream, n)
    /\ stream' = Drop(stream, n)
    /\ rx_pc' = "byte"
    /\ UNCHANGED <<uiVars, input, line_buf, is_discarding, s_handlers, telVars, dispVars,
                   imgVars, hwVars, histVars, emitted>>

IsDelimiter(c) == c = "\n" \/ c = "\r"

\* if (line_pos < USB_LINE_BUFFER_SIZE - 1)
HasRoom(pos) == pos < LineBufferSize - 1

\* what a delimiter does while discarding
EndDiscard_Keep(buf) == buf
EndDiscard(buf) == <<>>

\* one turn of the for loop on c = rx_buf[i]
RxByte ==
    /\ rx_pc = "byte"
    /\ rx_buf # <<>>
    /\ LET c == Head(rx_buf)
           rest == Tail(rx_buf)
       IN /\ rx_buf' = rest
          /\ IF IsDelimiter(c)
             THEN IF is_discarding
                  THEN /\ is_discarding' = FALSE
                       /\ line_buf' = EndDiscard(line_buf)
                       /\ rx_pc' = AfterByte(rest)
                       /\ UNCHANGED <<emitted, resp, calls, log_msg>>
                  ELSE IF Len(line_buf) > 0
                  THEN \* line_buf[line_pos] = '\0'; the line goes to the dispatcher
                       /\ rx_pc' = "dispatch"
                       /\ emitted' = Append(emitted, line_buf)
                       /\ resp' = <<>>
                       /\ calls' = <<>>
                       /\ log_msg' = ""
                       /\ UNCHANGED <<line_buf, is_discarding>>
                  ELSE /\ rx_pc' = AfterByte(rest)
                       /\ UNCHANGED <<line_buf, is_discarding, emitted, resp, calls, log_msg>>
             ELSE IF is_discarding
             THEN /\ rx_pc' = AfterByte(rest)
                  /\ UNCHANGED <<line_buf, is_discarding, emitted, resp, calls, log_msg>>
             ELSE IF HasRoom(Len(line_buf))
             THEN /\ line_buf' = Append(line_buf, c)
                  /\ rx_pc' = AfterByte(rest)
                  /\ UNCHANGED <<is_discarding, emitted, resp, calls, log_msg>>
             ELSE /\ is_discarding' = TRUE
                  /\ rx_pc' = AfterByte(rest)
                  /\ UNCHANGED <<line_buf, emitted, resp, calls, log_msg>>
    /\ UNCHANGED <<uiVars, envVars, s_handlers, telVars, dispVars, imgVars, hwVars, last_line>>

\* the framer has accumulated line and met its delimiter (line-level feed);
\* what is remembered of the line before is dropped
RxLine(line) ==
    /\ rx_pc = "read"
    /\ line # <<>> /\ Len(line) <= LineBufferSize - 1
    /\ line_buf' = line
    /\ rx_pc' = "dispatch"
    /\ resp' = <<>>
    /\ calls' = <<>>
    /\ log_msg' = ""
    /\ UNCHANGED <<uiVars, envVars, rx_buf, is_discarding, s_handlers, telVars, dispVars,
                   imgVars, hwVars, last_line, emitted>>

(***************************************************************************)
(* usb_rx_task: dispatch of a complete line                                *)
(***************************************************************************)
S_WHO == <<"W", "H", "O", "_", "A", "R", "E", "_", "Y", "O", "U", "?">>

\* handle_handshake(line): strcmp(line, "WHO_ARE_YOU?") == 0
handle_handshake(line) == line = S_WHO

\* the return value of handler h on line
HandlerClaims(h, line) ==
    IF h = "hw_identity_handle_command" THEN HwClaims(line)
    ELSE ss_image_handle_command(Image, line).claimed

\* for (h = 0; h < s_handler_count && !handled; h++) handled = s_handlers[h](line);
\* [handled, called]
RECURSIVE RunHandlers(_, _, _, _)
RunHandlers(hs, line, h, called) ==
    IF h > Len(hs) THEN [handled |-> FALSE, called |-> called]
    ELSE IF HandlerClaims(hs[h], line)
    THEN [handled |-> TRUE, called |-> Append(called, hs[h])]
    ELSE RunHandlers(hs, line, h + 1, Append(called, hs[h]))

\* the loop without its !handled test
RECURSIVE RunAllHandlers(_, _, _, _)
RunAllHandlers(hs, line, h, acc) ==
    IF h > Len(hs) THEN acc
    ELSE RunAllHandlers(hs, line, h + 1,
                        [handled |-> acc.handled \/ HandlerClaims(hs[h], line),
                         called |-> Append(acc.called, hs[h])])

DispatchRoute_NoStop(hs, line) ==
    RunAllHandlers(hs, line, 1, [handled |-> FALSE, called |-> <<>>])
DispatchRoute(hs, line) == RunHandlers(hs, line, 1, <<>>)

\* the handshake answered
DoHandshake ==
    /\ resp' = <<RT("SCARAB_CLIENT_OK|H:", hw_identity.identity_hash)>>
    /\ rx_pc' = AfterByte(rx_buf)
    /\ UNCHANGED <<telVars, imgVars, hwVars, last_line, log_msg>>

\* hw_identity_handle_command claimed the line
DoHwIdentity(line) ==
    /\ hw_identity' = HwApply(hw_identity, line)
    /\ hw_files' \in hw_identity_save(hw_identity', hw_files)
    /\ resp' = <<>>
    /\ rx_pc' = AfterByte(rx_buf)
    /\ UNCHANGED <<telVars, imgVars, last_line, log_msg>>

\* ss_image_handle_command claimed the line
DoImage(line) ==
    \E o \in ss_image_handle_command(Image, line).outs :
        /\ upload_ctx' = o.im.ctx
        /\ heap' = o.im.heap
        /\ files' = o.im.files
        /\ loaded_images' = o.im.loaded
        /\ resp' = o.resp
        /\ rx_pc' = IF o.fault THEN "fault" ELSE AfterByte(rx_buf)
        /\ UNCHANGED <<telVars, hwVars, last_line, log_msg>>

\* parse_pc_data(line) up to the wait for the stats mutex; on a return the
\* locals temp_stats and fields_parsed are gone
DoParse(line) ==
    /\ resp' = <<>>
    /\ IF TooShort(line)
       THEN /\ rx_pc' = AfterByte(rx_buf)
            /\ UNCHANGED <<temp_stats, fields_parsed, last_line, log_msg>>
       ELSE LET st == ParseLine(s_pc_stats, line)
            IN IF EnoughFields(st.fields)
               THEN /\ temp_stats' = st.temp
                    /\ fields_parsed' = st.fields
                    /\ last_line' = line
                    /\ rx_pc' = "take"
                    /\ UNCHANGED log_msg
               ELSE /\ rx_pc' = AfterByte(rx_buf)
                    /\ log_msg' = "Incomplete data"
                    /\ UNCHANGED <<temp_stats, fields_parsed, last_line>>
    /\ UNCHANGED <<s_pc_stats, s_last_data_ms, s_stats_mutex, s_stats_mutex_timeouts, wr_i,
                   committed, imgVars, hwVars>>

\* usb_rx_task on a complete line: handshake, registered handlers, parser
Dispatch ==
    /\ rx_pc = "dispatch"
    /\ LET line == line_buf
           route == DispatchRoute(s_handlers, line)
       IN /\ line_buf' = <<>>
          /\ IF handle_handshake(line)
             THEN calls' = <<"handle_handshake">> /\ DoHandshake
             ELSE /\ calls' = <<"handle_handshake">> \o route.called
                               \o (IF route.handled THEN <<>> ELSE <<"parse_pc_data">>)
                  /\ IF ~route.handled THEN DoParse(line)
                     ELSE IF Last(route.called) = "hw_identity_handle_command"
                     THEN DoHwIdentity(line)
                     ELSE DoImage(line)
    /\ UNCHANGED <<uiVars, envVars, rx_buf, is_discarding, s_handlers, dispVars, emitted>>

(***************************************************************************)
(* parse_pc_data: the commit under the stats mutex                         *)
(***************************************************************************)
NFields == Len(StatsFields)

\* xSemaphoreTake(s_stats_mutex, pdMS_TO_TICKS(100)) == pdTRUE
CommitTake ==
    /\ rx_pc = "take"
    /\ s_stats_mutex = "free"
    /\ s_stats_mutex' = "rx"
    /\ wr_i' = 0
    /\ rx_pc' = "copy"
    /\ UNCHANGED <<uiVars, envVars, rx_buf, line_buf, is_discarding, s_handlers, s_pc_stats,
                   s_last_data_ms, s_stats_mutex_timeouts, temp_stats, fields_parsed,
                   committed, dispVars, imgVars, hwVars, histVars, emitted>>

\* a timeout branch that stamps the clock all the same
CommitTimeout_Stamp ==
    /\ rx_pc = "take"
    /\ s_stats_mutex # "free"
    /\ s_stats_mutex_timeouts < MaxTimeouts
    /\ s_stats_mutex_timeouts' = s_stats_mutex_timeouts + 1
    /\ rx_pc' = AfterByte(rx_buf)
    /\ temp_stats' = ZeroStats
    /\ fields_parsed' = 0
    /\ last_line' = <<>>
    /\ log_msg' = "Stats mutex timeout"
    /\ \E t \in Clock(LastRead) : s_last_data_ms' = t
    /\ UNCHANGED <<uiVars, envVars, rx_buf, line_buf, is_discarding, s_handlers, s_pc_stats,
                   s_stats_mutex, wr_i, committed, dispVars, imgVars,
                   hwVars, resp, calls, emitted>>

\* the take timed out: the mutex was held for the whole 100 ms
CommitTimeout ==
    /\ rx_pc = "take"
    /\ s_stats_mutex # "free"
    /\ s_stats_mutex_timeouts < MaxTimeouts
    /\ s_stats_mutex_timeouts' = s_stats_mutex_timeouts + 1
    /\ rx_pc' = AfterByte(rx_buf)
    /\ temp_stats' = ZeroStats
    /\ fields_parsed' = 0
    /\ last_line' = <<>>
    /\ log_msg' = "Stats mutex timeout"
    /\ UNCHANGED <<uiVars, envVars, rx_buf, line_buf, is_discarding, s_handlers, s_pc_stats,
                   s_last_data_ms, s_stats_mutex, wr_i, committed, dispVars, imgVars,
                   hwVars, resp, calls, emitted>>

\* s_pc_stats = temp_stats, one member at a time
CommitCopy ==
    /\ rx_pc = "copy"
    /\ wr_i < NFields
    /\ s_pc_stats' = [s_pc_stats EXCEPT ![StatsFields[wr_i + 1]] = temp_stats[StatsFields[wr_i + 1]]]
    /\ wr_i' = wr_i + 1
    /\ UNCHANGED <<uiVars, envVars, rxVars, s_handlers, s_last_data_ms, s_stats_mutex,
                   s_stats_mutex_timeouts, temp_stats, fields_parsed, committed, dispVars,
                   imgVars, hwVars, histVars, emitted>>

\* s_last_data_ms = (uint32_t)(esp_timer_get_time() / 1000)
CommitStamp ==
    /\ rx_pc = "copy"
    /\ wr_i = NFields
    /\ \E t \in Clock(LastRead) : s_last_data_ms' = t
    /\ rx_pc' = "give"
    /\ UNCHANGED <<uiVars, envVars, rx_buf, line_buf, is_discarding, s_handlers, s_pc_stats,
                   s_stats_mutex, s_stats_mutex_timeouts, temp_stats, fields_parsed, wr_i,
                   committed, dispVars, imgVars, hwVars, histVars, emitted>>

\* xSemaphoreGive(s_stats_mutex); parse_pc_data returns
CommitGive ==
    /\ rx_pc = "give"
    /\ s_stats_mutex' = "free"
    /\ rx_pc' = AfterByte(rx_buf)
    /\ temp_stats' = ZeroStats
    /\ fields_parsed' = 0
    /\ wr_i' = 0
    /\ last_line' = <<>>
    /\ log_msg' = "Parsed"
    /\ committed' = temp_stats
    /\ UNCHANGED <<uiVars, envVars, rx_buf, line_buf, is_discarding, s_handlers, s_pc_stats,
                   s_last_data_ms, s_stats_mutex_timeouts, dispVars,
                   imgVars, hwVars, resp, calls, emitted>>

(***************************************************************************)
(* display_update_task: the snapshot of the shared frame                   *)
(***************************************************************************)
\* the copy started without the mutex
DispTake_NoLock ==
    /\ disp_pc = "idle"
    /\ rd_i' = 0
    /\ disp_pc' = "copy"
    /\ snap_frame' = committed
    /\ UNCHANGED <<uiVars, envVars, rxVars, s_handlers, telVars, local_stats, imgVars, hwVars,
                   histVars, emitted>>

\* xSemaphoreTake(stats_mutex, portMAX_DELAY): returns once the mutex is free
DispTake ==
    /\ disp_pc = "idle"
    /\ s_stats_mutex = "free"
    /\ s_stats_mutex' = "disp"
    /\ rd_i' = 0
    /\ disp_pc' = "copy"
    /\ snap_frame' = committed
    /\ UNCHANGED <<uiVars, envVars, rxVars, s_handlers, s_pc_stats, s_last_data_ms,
                   s_stats_mutex_timeouts, temp_stats, fields_parsed, wr_i, committed,
                   local_stats, imgVars, hwVars, histVars, emitted>>

\* pc_stats_t local_stats = pc_stats, one member at a time
DispCopy ==
    /\ disp_pc = "copy"
    /\ rd_i < NFields
    /\ local_stats' = [local_stats EXCEPT ![StatsFields[rd_i + 1]] = s_pc_stats[StatsFields[rd_i + 1]]]
    /\ rd_i' = rd_i + 1
    /\ UNCHANGED <<uiVars, envVars, rxVars, s_handlers, telVars, disp_pc, snap_frame, imgVars,
                   hwVars, histVars, emitted>>

\* xSemaphoreGive(stats_mutex); the screens are then drawn from local_stats
DispGive ==
    /\ disp_pc = "copy"
    /\ rd_i = NFields
    /\ s_stats_mutex' = "free"
    /\ disp_pc' = "draw"
    /\ UNCHANGED <<uiVars, envVars, rxVars, s_handlers, s_pc_stats, s_last_data_ms,
                   s_stats_mutex_timeouts, temp_stats, fields_parsed, wr_i, committed,
                   local_stats, rd_i, snap_frame, imgVars, hwVars, histVars, emitted>>

\* screen_*_update(..., &local_stats); local_stats ends with the cycle
DispDrawTo(next) ==
    /\ disp_pc = "draw"
    /\ disp_pc' = next
    /\ local_stats' = ZeroStats
    /\ rd_i' = 0
    /\ snap_frame' = ZeroStats
    /\ UNCHANGED <<uiVars, envVars, rxVars, s_handlers, telVars, imgVars, hwVars, histVars, emitted>>

\* the cycle with the render lock left out: the next snapshot follows the draw
DispDraw == DispDrawTo("idle")

(***************************************************************************)
(* display_update_task: the cycle under the LVGL mutex (main_lvgl.c)       *)
(***************************************************************************)
\* the uint32_t that holds the clock at tick t
U32(t) == (epoch + t) % ClockMod

\* (uint32_t)(a - b)
Sub32_Signed(a, b) == a - b
Sub32(a, b) == (a - b + ClockMod) % ClockMod

\* (uint32_t)(a - b) > limit, for the clock at the ticks a and b
Gt32_Ge(a, b, limit) == Sub32(U32(a), U32(b)) >= limit
Gt32(a, b, limit) == Sub32(U32(a), U32(b)) > limit

\* data_is_stale and should_screensave of the evaluation under way
data_is_stale == Gt32(now, last_seen, StaleTicks)
should_screensave == Gt32(now, last_seen, ScreensaverTicks)

\* the call the screensaver logic makes
SsCall_Level(want, active) == IF want THEN "show" ELSE "hide"
SsCall(want, active) ==
    IF want /\ ~active THEN "show"
    ELSE IF ~want /\ active THEN "hide"
    ELSE "none"

\* is_screensaver_active after the screensaver logic
ScreensaverAfter_Latch(want, active) == want \/ active
ScreensaverAfter(want, active) ==
    IF want /\ ~active THEN TRUE
    ELSE IF ~want /\ active THEN FALSE
    ELSE active

\* what the overlays and the dots show
UiMode ==
    IF is_screensaver_active THEN "Screensaver"
    ELSE IF red_dots THEN "Stale" ELSE "Live"

\* uint32_t now = (uint32_t)(esp_timer_get_time() / 1000)
DispNow ==
    /\ disp_pc = "now"
    /\ \E t \in Clock(LastRead) : now' = t
    /\ disp_pc' = "elapsed"
    /\ UNCHANGED <<lvgl_mutex, timer_pc, is_screensaver_active, red_dots, last_seen,
                   mode_stamp, prev_mode, ss_call, extraVars, envVars, rxVars, s_handlers, telVars, local_stats, rd_i,
                   snap_frame, imgVars, hwVars, histVars, emitted>>

\* time_since_data = now - last_data_ms: last_data_ms is read without the stats mutex
DispElapsed ==
    /\ disp_pc = "elapsed"
    /\ last_seen' = s_last_data_ms
    /\ disp_pc' = "lvgl"
    /\ UNCHANGED <<lvgl_mutex, timer_pc, is_screensaver_active, red_dots, now,
                   mode_stamp, prev_mode, ss_call, extraVars, envVars, rxVars, s_handlers, telVars, local_stats, rd_i,
                   snap_frame, imgVars, hwVars, histVars, emitted>>

\* xSemaphoreTake(lvgl_mutex, pdMS_TO_TICKS(50)) == pdTRUE, then the screensaver
\* logic and the red dot logic
DispLvglTake ==
    /\ disp_pc = "lvgl"
    /\ lvgl_mutex = "free"
    /\ lvgl_mutex' = "disp"
    /\ is_screensaver_active' = ScreensaverAfter(should_screensave, is_screensaver_active)
    /\ red_dots' = (data_is_stale /\ ~is_screensaver_active')
    /\ mode_stamp' = IF now < last_seen THEN -1 ELSE last_seen
    /\ prev_mode' = UiMode
    /\ ss_call' = SsCall(should_screensave, is_screensaver_active)
    /\ disp_pc' = IF is_screensaver_active' THEN "release" ELSE "idle"
    /\ UNCHANGED <<timer_pc, now, last_seen, extraVars, envVars, rxVars, s_handlers,
                   telVars, local_stats, rd_i, snap_frame, imgVars, hwVars, histVars,
                   emitted>>

\* the take timed out after 50 ms: the cycle is skipped; vTaskDelay
DispLvglTimeout ==
    /\ disp_pc = "lvgl"
    /\ lvgl_mutex # "free"
    /\ disp_pc' = "now"
    /\ ss_call' = "none"
    /\ UNCHANGED <<lvgl_mutex, timer_pc, is_screensaver_active, red_dots, now, last_seen,
                   mode_stamp, prev_mode, extraVars, envVars, rxVars, s_handlers, telVars, local_stats, rd_i,
                   snap_frame, imgVars, hwVars, histVars, emitted>>

\* the draw of a cycle that holds the LVGL mutex
DispDrawHeld == DispDrawTo("release")

\* xSemaphoreGive(lvgl_mutex); vTaskDelay(pdMS_TO_TICKS(DISPLAY_UPDATE_MS))
DispLvglGive ==
    /\ disp_pc = "release"
    /\ lvgl_mutex' = "free"
    /\ disp_pc' = "now"
    /\ UNCHANGED <<timer_pc, is_screensaver_active, red_dots, now, last_seen,
                   mode_stamp, prev_mode, ss_call, extraVars, envVars, rxVars, s_handlers, telVars, local_stats, rd_i,
                   snap_frame, imgVars, hwVars, histVars, emitted>>

(***************************************************************************)
(* lvgl_timer_task (main_lvgl.c)                                           *)
(***************************************************************************)
\* xSemaphoreTake(lvgl_mutex, pdMS_TO_TICKS(20)) == pdTRUE
TimerTake ==
    /\ timer_pc = "take"
    /\ lvgl_mutex = "free"
    /\ lvgl_mutex' = "timer"
    /\ timer_pc' = "handler"
    /\ UNCHANGED <<is_screensaver_active, red_dots, now, last_seen, mode_stamp, prev_mode, ss_call, extraVars, envVars,
                   rxVars, s_handlers, telVars, dispVars, imgVars, hwVars, histVars,
                   emitted>>

\* the take timed out after 20 ms
TimerTimeout ==
    /\ timer_pc = "take"
    /\ lvgl_mutex # "free"
    /\ timer_pc' = "delay"
    /\ UNCHANGED <<lvgl_mutex, is_screensaver_active, red_dots, now, last_seen,
                   mode_stamp, prev_mode, ss_call, extraVars, envVars, rxVars, s_handlers, telVars, dispVars, imgVars,
                   hwVars, histVars, emitted>>

\* lv_timer_handler() without the give
TimerGive_Keep ==
    /\ timer_pc = "handler"
    /\ timer_pc' = "delay"
    /\ UNCHANGED <<lvgl_mutex, is_screensaver_active, red_dots, now, last_seen,
                   mode_stamp, prev_mode, ss_call, extraVars, envVars, rxVars, s_handlers, telVars, dispVars,
                   imgVars, hwVars, histVars, emitted>>

\* lv_timer_handler(); xSemaphoreGive(lvgl_mutex)
TimerGive ==
    /\ timer_pc = "handler"
    /\ lvgl_mutex' = "free"
    /\ timer_pc' = "delay"
    /\ UNCHANGED <<is_screensaver_active, red_dots, now, last_seen, mode_stamp, prev_mode, ss_call, extraVars, envVars,
                   rxVars, s_handlers, telVars, dispVars, imgVars, hwVars, histVars,
                   emitted>>

\* vTaskDelay; taskYIELD(); the loop starts again
TimerDelay ==
    /\ timer_pc = "delay"
    /\ timer_pc' = "take"
    /\ UNCHANGED <<lvgl_mutex, is_screensaver_active, red_dots, now, last_seen,
                   mode_stamp, prev_mode, ss_call, extraVars, envVars, rxVars, s_handlers, telVars, dispVars, imgVars,
                   hwVars, histVars, emitted>>

(***************************************************************************)
(* Inputs: telemetry lines                                                 *)
(***************************************************************************)
T_CPU == <<"C", "P", "U", ":", "5", "5">>
T_CPUT == <<"C", "P", "U", "T", ":", "6", "1", ".", "5">>
T_GPU == <<"G", "P", "U", ":", "-", "1">>
T_GPUT == <<"G", "P", "U", "T", ":", "7", "0">>
T_VRAM == <<"V", "R", "A", "M", ":", "2", ".", "5", "/", "8">>
T_RAM == <<"R", "A", "M", ":", "8", "/", "1", "6">>
T_NET == <<"N", "E", "T", ":", "L", "A", "N">>
T_SPEED == <<"S", "P", "E", "E", "D", ":", "1", "0", "0", "0", " ", "M", "b", "p", "s">>
T_DOWN == <<"D", "O", "W", "N", ":", "1", ".", "5">>
T_UP == <<"U", "P", ":", "0", ".", "3">>
U_CPU == <<"C", "P", "U", ":", "7">>
U_CPUT == <<"C", "P", "U", "T", ":", "4", "0">>
U_GPU == <<"G", "P", "U", ":", "9", "9">>
U_GPUT == <<"G", "P", "U", "T", ":", "-", "1">>
U_VRAM == <<"V", "R", "A", "M", ":", "4", "/", "8">>
U_RAM == <<"R", "A", "M", ":", "9", ".", "5", "/", "0">>
U_NET == <<"N", "E", "T", ":", "W", "L", "A", "N">>
U_SPEED == <<"S", "P", "E", "E", "D", ":", "5", "4", " ", "M", "b", "p", "s">>
U_DOWN == <<"D", "O", "W", "N", ":", "2", "0">>
U_UP == <<"U", "P", ":", "5">>
T_FAN == <<"F", "A", "N", ":", "3">>
T_NETLONG == <<"N", "E", "T", ":", "A", "B", "C", "D", "E", "F", "G", "H", "I", "J", "K", "L", "M", "N", "O", "P", "Q", "R">>
B_CPU == <<"C", "P", "U", ":", "x">>
B_CPUT == <<"C", "P", "U", "T", ":">>
B_VRAM == <<"V", "R", "A", "M", ":", "3">>
B_RAM == <<"R", "A", "M", ":", "/", "4">>
B_UP == <<"U", "P", ":">>
T_UP1 == <<"U", "P", ":", "1">>
T_INT16 == <<"C", "P", "U", ":", "6", "5", "5", "3", "7">>

\* the tokens joined by commas
RECURSIVE Join(_)
Join(toks) ==
    IF toks = <<>> THEN <<>>
    ELSE IF Len(toks) = 1 THEN toks[1]
    ELSE toks[1] \o <<",">> \o Join(Tail(toks))

FullA == <<T_CPU, T_CPUT, T_GPU, T_GPUT, T_VRAM, T_RAM, T_NET, T_SPEED, T_DOWN, T_UP>>
FullB == <<U_UP, U_DOWN, U_SPEED, U_NET, U_RAM, U_VRAM, U_GPUT, U_GPU, U_CPUT, U_CPU>>

TelemetryLines ==
    { Join(FullA),
      Join(FullB),
      Join(<<T_CPU, T_GPU, U_RAM, T_NET, T_UP>>),
      Join(<<T_CPU, T_GPU, T_RAM, T_NET>>),
      Join(<<T_CPU, T_GPU, T_RAM, T_NET, T_FAN>>),
      Join(<<T_CPU, U_CPU, T_INT16, U_CPU, T_CPU>>),
      Join(<<T_CPU, <<>>, T_GPU, <<>>, <<>>, T_RAM, T_NETLONG, T_UP>>),
      Join(<<B_CPU, B_CPUT, B_VRAM, B_RAM, B_UP>>),
      Join(<<T_FAN, T_FAN, T_FAN, T_FAN, T_FAN, T_UP>>),
      T_UP1 }

(***************************************************************************)
(* Inputs: images and upload command lines                                 *)
(***************************************************************************)
\* decimal and hexadecimal text of a number, as the host prints it
RECURSIVE ToDec(_)
ToDec(n) == IF n < 10 THEN <<Digits[n + 1]>> ELSE ToDec(n \div 10) \o <<Digits[(n % 10) + 1]>>
HexOfByte(b) == <<HexDigits[(b \div 16) + 1], HexDigits[(b % 16) + 1]>>
RECURSIVE HexOfBytes(_)
HexOfBytes(bs) == IF bs = <<>> THEN <<>> ELSE HexOfByte(Head(bs)) \o HexOfBytes(Tail(bs))

\* a header: magic, width, height, format, version 1, reserved, data_size
Header(magic, width, format, data_size) ==
    magic \o <<width % 256, width \div 256, SCARAB_IMG_HEIGHT % 256, SCARAB_IMG_HEIGHT \div 256,
               format, 1, 0, 0, data_size, 0, 0, 0>>

ImgGood == Header(MagicBytes, SCARAB_IMG_WIDTH, SCARAB_FMT_RGB565, 1) \o <<171>>
ImgFlipped == Header(MagicBytes, SCARAB_IMG_WIDTH, SCARAB_FMT_RGB565, 1) \o <<170>>
ImgBadMagic == Header(<<83, 67, 65, 82>>, SCARAB_IMG_WIDTH, SCARAB_FMT_RGB565, 0)
ImgBadWidth == Header(MagicBytes, 10, SCARAB_FMT_RGB565, 0)

BeginLine(slot, size) == P_IMG_BEGIN \o slot \o <<":">> \o ToDec(size)
DataLine(offset, bytes) == P_IMG_DATA \o ToDec(offset) \o <<":">> \o HexOfBytes(bytes)
\* %08X of a uint32_t
Hex32(x) == HexOfBytes(<<x[1] \div 256, x[1] % 256, x[2] \div 256, x[2] % 256>>)
EndLine(img) == P_IMG_END \o Hex32(crc32_update(U32Zero, img))

\* where the host cuts ImgGood into two chunks
Cut == 8

ImgLines ==
    { BeginLine(<<"0">>, Len(ImgGood)),
      BeginLine(<<"0">>, Len(ImgBadWidth)),
      BeginLine(<<"4">>, Len(ImgGood)),
      BeginLine(<<"0">>, SCARAB_IMG_HEADER_SIZE - 1),
      BeginLine(<<"0">>, SCARAB_IMG_MAX_SIZE + 1),
      P_IMG_BEGIN \o <<"0">>,
      DataLine(0, SubSeq(ImgGood, 1, Cut)),
      DataLine(Cut, SubSeq(ImgGood, Cut + 1, Len(ImgGood))),
      DataLine(Cut, SubSeq(ImgFlipped, Cut + 1, Len(ImgFlipped))),
      DataLine(0, ImgBadMagic),
      DataLine(0, ImgBadWidth),
      P_IMG_DATA \o <<"0", ":", "A", "B", "C">>,
      P_IMG_DATA \o <<"0">>,
      P_IMG_DATA \o <<"x", ":", "A", "B">>,
      EndLine(ImgGood),
      EndLine(ImgBadMagic),
      EndLine(ImgBadWidth),
      P_IMG_END \o <<"z", "z">>,
      P_IMG_ABORT,
      P_IMG_STATUS,
      P_IMG_DELETE \o <<"0">>,
      P_IMG_DELETE \o <<"9">>,
      P_IMG \o <<"F", "O", "O">> }

\* images a host uploads whole: valid header, size within the accepted bounds
ImgAlpha == Header(MagicBytes, SCARAB_IMG_WIDTH, SCARAB_FMT_RGB565A8, 1) \o <<7>>
ImgEmpty == Header(MagicBytes, SCARAB_IMG_WIDTH, SCARAB_FMT_RGB565, 0)
UploadImages == {ImgGood, ImgFlipped, ImgAlpha, ImgEmpty}

\* sessions begun over one another, in every slot and at the size bounds
BeginLines ==
    { BeginLine(<<"0">>, Len(ImgGood)),
      BeginLine(<<"2">>, Len(ImgGood)),
      BeginLine(<<"3">>, SCARAB_IMG_HEADER_SIZE),
      BeginLine(<<"4">>, Len(ImgGood)),
      BeginLine(<<"1">>, SCARAB_IMG_HEADER_SIZE - 1),
      BeginLine(<<"1">>, SCARAB_IMG_MAX_SIZE + 1),
      DataLine(0, SubSeq(ImgGood, 1, Cut)),
      DataLine(0, ImgGood),
      EndLine(ImgGood),
      P_IMG_ABORT }

(***************************************************************************)
(* Inputs: byte streams for the framer                                     *)
(***************************************************************************)
L_NAME == <<"N", "A", "M", "E", "_", "C", "P", "U", "=", "i", "7">>
L_TELE == <<"C", "P", "U", ":", "1", ",", "G", "P", "U", ":", "2", ",", "U", "P", ":", "3", ",", "D", "O", "W", "N", ":", "4", ",", "N", "E", "T", ":", "L">>
L_FOUR == <<"C", "P", "U", ":", "1", ",", "U", "P", ":", "2">>
L_JUNK == <<"I", "M", "G", "_", "X">>
\* a line of n bytes
Filler(n) == [i \in 1..n |-> "x"]

FramerLines ==
    { S_WHO, L_NAME, P_IMG_ABORT, L_JUNK, L_TELE,
      Filler(LineBufferSize - 1), Filler(LineBufferSize), Filler(LineBufferSize + 2) }

DispatchLines ==
    {S_WHO, L_NAME, P_IMG_ABORT, BeginLine(<<"0">>, Len(ImgGood)), L_JUNK, L_FOUR}

FramerStreams ==
    { a \o d \o b \o e :
        a \in FramerLines, d \in {<<"\n">>, <<"\r", "\n">>, <<"\r">>},
        b \in {S_WHO, L_JUNK, L_TELE}, e \in {<<"\n">>, <<>>} }

(***************************************************************************)
(* Initial states and specifications                                       *)
(***************************************************************************)
\* the state after app start-up, the tasks not yet fed
InitCommon ==
    /\ rx_buf = <<>>
    /\ line_buf = <<>>
    /\ is_discarding = FALSE
    /\ s_pc_stats = ZeroStats
    /\ s_last_data_ms = 0
    /\ s_stats_mutex = "free"
    /\ s_stats_mutex_timeouts = 0
    /\ temp_stats = ZeroStats
    /\ fields_parsed = 0
    /\ wr_i = 0
    /\ local_stats = ZeroStats
    /\ rd_i = 0
    /\ upload_ctx = ZeroCtx
    /\ heap = EmptyHeap
    /\ files = [sl \in Slots |-> NoFile]
    /\ loaded_images = [sl \in Slots |-> NotLoaded]
    /\ hw_identity = InitIdentity
    /\ hw_files = [names |-> NoFile, hash |-> NoFile]
    /\ resp = <<>>
    /\ emitted = <<>>
    /\ calls = <<>>
    /\ last_line = <<>>
    /\ log_msg = ""
    /\ committed = ZeroStats
    /\ snap_frame = ZeroStats
    /\ lvgl_mutex = "free"
    /\ timer_pc = "take"
    /\ is_screensaver_active = FALSE
    /\ red_dots = FALSE
    /\ last_seen = 0
    /\ mode_stamp = 0
    /\ prev_mode = "Live"
    /\ ss_call = "none"
    /\ gui_settings = DefaultColor
    /\ gui_file = NoFile
    /\ ui_theme = DefaultColor

\* the handlers as a main built on these modules registers them
Registered == <<"hw_identity_handle_command", "ss_image_handle_command">>

\* registration at start-up, then lines delivered to the dispatcher
InitDispatch ==
    /\ InitCommon
    /\ disp_pc = "idle"
    /\ now = 0
    /\ epoch = 0
    /\ input = <<>>
    /\ stream = <<>>
    /\ rx_pc = "init"
    /\ s_handlers = <<>>

NextDispatch ==
    \/ \E h \in Handlers : RegisterHandler(h)
    \/ StartRxTask
    \/ \E line \in DispatchLines : RxLine(line)
    \/ Dispatch

SpecDispatch == InitDispatch /\ [][NextDispatch]_vars

\* the framer fed a byte stream in chunks
InitFramer ==
    /\ InitCommon
    /\ disp_pc = "idle"
    /\ now = 0
    /\ epoch = 0
    /\ input \in FramerStreams
    /\ stream = input
    /\ rx_pc = "read"
    /\ s_handlers = Registered

NextFramer ==
    \/ \E n \in 1..RxBufSize : RxRead(n)
    \/ RxByte
    \/ Dispatch
    \/ CommitTake
    \/ CommitCopy
    \/ CommitStamp
    \/ CommitGive

SpecFramer == InitFramer /\ [][NextFramer]_vars

\* the tasks running, fed line by line
InitRunning ==
    /\ InitCommon
    /\ disp_pc = "idle"
    /\ now = 0
    /\ epoch = 0
    /\ input = <<>>
    /\ stream = <<>>
    /\ rx_pc = "read"
    /\ s_handlers = Registered

\* telemetry lines delivered while display_update_task takes its snapshots
NextTelemetry ==
    \/ \E line \in TelemetryLines : RxLine(line)
    \/ Dispatch
    \/ CommitTake
    \/ CommitTimeout
    \/ CommitCopy
    \/ CommitStamp
    \/ CommitGive
    \/ DispTake
    \/ DispCopy
    \/ DispGive
    \/ DispDraw

SpecTelemetry == InitRunning /\ [][NextTelemetry]_vars

\* upload command lines delivered to the dispatcher
NextImage ==
    \/ \E line \in ImgLines : RxLine(line)
    \/ Dispatch

SpecImage == InitRunning /\ [][NextImage]_vars

\* IMG_BEGIN lines delivered in every session state
NextBegin ==
    \/ \E line \in BeginLines : RxLine(line)
    \/ Dispatch

SpecBegin == InitRunning /\ [][NextBegin]_vars

\* the three tasks of app_main running: usb_rx_task fed with lines,
\* display_update_task at the top of its loop, lvgl_timer_task at its take
InitSystem ==
    /\ InitCommon
    /\ disp_pc = "now"
    /\ now = 0
    /\ epoch = 0
    /\ input = <<>>
    /\ stream = <<>>
    /\ rx_pc = "read"
    /\ s_handlers = Registered

\* the lines the host sends while the render tasks run
UiLines == {Join(FullA)}
RenderLines == {BeginLine(<<"0">>, Len(ImgGood)), DataLine(0, ImgGood), EndLine(ImgGood)}

CommitStep ==
    \/ CommitTake
    \/ CommitTimeout
    \/ CommitCopy
    \/ CommitStamp
    \/ CommitGive

DispStep ==
    \/ DispNow
    \/ DispElapsed
    \/ DispLvglTake
    \/ DispLvglTimeout
    \/ DispTake
    \/ DispCopy
    \/ DispGive
    \/ DispDrawHeld
    \/ DispLvglGive

TimerStep ==
    \/ TimerTake
    \/ TimerTimeout
    \/ TimerGive
    \/ TimerDelay

\* telemetry arriving while display_update_task and lvgl_timer_task run
NextUi ==
    \/ \E line \in UiLines : RxLine(line)
    \/ Dispatch
    \/ CommitStep
    \/ DispStep
    \/ TimerStep

SpecUi == InitSystem /\ [][NextUi]_vars

\* the same under the scheduler: a task inside parse_pc_data, in the display
\* cycle or in the timer loop that can run does run; a task blocked on a mutex
\* runs when the mutex is given, since usb_rx_task delays after every chunk
\* and display_update_task after every cycle with the mutex free
Fairness ==
    /\ WF_vars(CommitStep)
    /\ SF_vars(CommitTake)
    /\ WF_vars(DispStep)
    /\ SF_vars(DispTake)
    /\ WF_vars(TimerStep)

\* the tasks running, long after start-up: display_update_task has read the
\* clock at MaxNow and skipped that cycle at the LVGL mutex
InitLate ==
    /\ InitCommon
    /\ disp_pc = "now"
    /\ now = MaxNow
    /\ epoch = 0
    /\ input = <<>>
    /\ stream = <<>>
    /\ rx_pc = "read"
    /\ s_handlers = Registered

SpecFair == InitLate /\ [][NextUi]_vars /\ Fairness

\* an upload arriving while display_update_task and lvgl_timer_task run
NextRender ==
    \/ \E line \in RenderLines : RxLine(line)
    \/ Dispatch
    \/ DispStep
    \/ TimerStep

SpecRender == InitSystem /\ [][NextRender]_vars

(***************************************************************************)
(* A host uploading the image `input`: IMG_BEGIN, IMG_DATA chunks that cover *)
(* the image in order, IMG_END with its CRC32.  `stream` is the part of the  *)
(* image not yet sent; each line reaches the dispatcher as RxLine delivers.  *)
(***************************************************************************)
\* the host's line arrives complete; rest is what the host still has to send
HostSend(line, rest) ==
    /\ rx_pc = "read"
    /\ line_buf' = line
    /\ rx_pc' = "dispatch"
    /\ stream' = rest
    /\ resp' = <<>>
    /\ calls' = <<>>
    /\ log_msg' = ""
    /\ UNCHANGED <<uiVars, input, rx_buf, is_discarding, s_handlers, telVars, dispVars,
                   imgVars, hwVars, last_line, emitted>>

\* the bytes of the image already sent
Sent == SubSeq(input, 1, Len(input) - Len(stream))

HostBegin(slot) ==
    /\ upload_ctx.state = IMG_UPLOAD_IDLE
    /\ resp = <<>>
    /\ stream = input
    /\ HostSend(BeginLine(ToDec(slot), Len(input)), stream)

HostData(n) ==
    /\ upload_ctx.state = IMG_UPLOAD_RECEIVING
    /\ n >= 1 /\ n <= Len(stream)
    /\ HostSend(DataLine(Len(Sent), Take(stream, n)), Drop(stream, n))

HostEnd ==
    /\ upload_ctx.state = IMG_UPLOAD_RECEIVING
    /\ stream = <<>>
    /\ HostSend(EndLine(input), stream)

InitUpload ==
    /\ InitCommon
    /\ disp_pc = "idle"
    /\ now = 0
    /\ epoch = 0
    /\ input \in UploadImages
    /\ stream = input
    /\ rx_pc = "read"
    /\ s_handlers = Registered

NextUpload ==
    \/ \E slot \in Slots : HostBegin(slot)
    \/ \E n \in 1..SCARAB_IMG_MAX_SIZE : HostData(n)
    \/ HostEnd
    \/ Dispatch

SpecUpload == InitUpload /\ [][NextUpload]_vars

(***************************************************************************)
(* Properties                                                              *)
(***************************************************************************)
Keys == {K_CPU, K_CPUT, K_GPU, K_GPUT, K_VRAM, K_RAM, K_NET, K_SPEED, K_DOWN, K_UP}
Tok(line, i) == SubSeq(line, i, TokEnd(line, i))
\* where the tokens starting with key k begin
TokensOf(line, k) == {i \in TokStarts(line) : StartsWith(Tok(line, i), k)}
\* how many tokens of the line start with a known key
NRecognized(line) == Cardinality({i \in TokStarts(line) : \E k \in Keys : StartsWith(Tok(line, i), k)})
\* the step that dispatches the accumulated line
DispatchStep == rx_pc = "dispatch" /\ rx_pc' # "dispatch"
RespTag == IF resp = <<>> THEN "" ELSE resp[1].tag

\* C1: a line with fewer than 5 tokens that start with a known key leaves the
\* shared frame and the last-valid-telemetry timestamp as they were, and
\* parse_pc_data returns without entering its commit.
C1_FewTokensLeaveFrame ==
    [][(DispatchStep /\ NRecognized(line_buf) < 5)
       => (s_pc_stats' = s_pc_stats /\ s_last_data_ms' = s_last_data_ms /\ rx_pc' # "take")]_vars

C1_Witness ==
    log_msg = "Incomplete data" /\ s_pc_stats # ZeroStats /\ s_last_data_ms > 0

\* C2: whenever display_update_task draws, its local copy is one whole frame:
\* the staging record of the last commit that had returned when the snapshot
\* began (the initial frame if there was none), whatever the interleaving.
C2_WholeFrameSnapshot == disp_pc = "draw" => local_stats = snap_frame

C2_Witness ==
    /\ disp_pc = "draw"
    /\ local_stats # ZeroStats
    /\ rx_pc = "copy" /\ wr_i > 0 /\ wr_i < NFields
    /\ s_pc_stats # local_stats

\* the value of key k in the line: what follows the key in its last token
Has(line, k) == TokensOf(line, k) # {}
LastValue(line, k) ==
    LET at == TokensOf(line, k)
        i == CHOOSE i \in at : \A j \in at : j <= i
    IN Drop(Tok(line, i), Len(k))
\* the frame a line stands for: each key that appears decoded, the others zero
ExpectedFrame(line) ==
    LET vram == ScanPair(LastValue(line, K_VRAM), 0, 0)
        ram == ScanPair(LastValue(line, K_RAM), 0, 0)
    IN [cpu_percent |-> IF Has(line, K_CPU) THEN AtoI16(LastValue(line, K_CPU)) ELSE 0,
        cpu_temp |-> IF Has(line, K_CPUT) THEN AtoF(LastValue(line, K_CPUT)) ELSE 0,
        gpu_percent |-> IF Has(line, K_GPU) THEN AtoI16(LastValue(line, K_GPU)) ELSE 0,
        gpu_temp |-> IF Has(line, K_GPUT) THEN AtoF(LastValue(line, K_GPUT)) ELSE 0,
        gpu_vram_used |-> IF Has(line, K_VRAM) THEN vram.a ELSE 0,
        gpu_vram_total |-> IF Has(line, K_VRAM) THEN vram.b ELSE 0,
        ram_used_gb |-> IF Has(line, K_RAM) THEN ram.a ELSE 0,
        ram_total_gb |-> IF Has(line, K_RAM) THEN RamTotalFloor(ram.b) ELSE 0,
        net_type |-> IF Has(line, K_NET) THEN Take(LastValue(line, K_NET), 15) ELSE <<>>,
        net_speed |-> IF Has(line, K_SPEED) THEN Take(LastValue(line, K_SPEED), 15) ELSE <<>>,
        net_down_mbps |-> IF Has(line, K_DOWN) THEN AtoF(LastValue(line, K_DOWN)) ELSE 0,
        net_up_mbps |-> IF Has(line, K_UP) THEN AtoF(LastValue(line, K_UP)) ELSE 0]

\* C3: when parse_pc_data has taken the mutex for a line with at least 5
\* recognized tokens and written the frame, the shared frame is the staging
\* record: each key of the line decoded, every other field zero.
C3_CommitIsStaging ==
    rx_pc = "give" =>
        /\ NRecognized(last_line) >= 5
        /\ s_pc_stats = temp_stats
        /\ s_pc_stats = ExpectedFrame(last_line)

C3_Witness ==
    /\ rx_pc = "give"
    /\ NRecognized(last_line) = 5
    /\ committed.cpu_temp # 0 /\ s_pc_stats.cpu_temp = 0
    /\ committed.net_speed # <<>> /\ s_pc_stats.net_speed = <<>>

\* the lines of a byte stream: the maximal runs of bytes that are no delimiter
RunStarts(s) == {i \in 1..Len(s) : ~IsDelimiter(s[i]) /\ (i = 1 \/ IsDelimiter(s[i - 1]))}
RunEnd(s, i) ==
    LET ds == {j \in i..Len(s) : IsDelimiter(s[j])}
    IN IF ds = {} THEN Len(s) ELSE (CHOOSE j \in ds : \A k \in ds : j <= k) - 1
Terminated(s, i) == RunEnd(s, i) < Len(s)
Fits(s, i) == RunEnd(s, i) - i + 1 <= LineBufferSize - 1
RunsFrom(s, starts) ==
    [k \in 1..Cardinality(starts) |->
        LET b == CHOOSE i \in starts : Cardinality({j \in starts : j < i}) = k - 1
        IN SubSeq(s, b, RunEnd(s, b))]
WellFormed(s) == \A i \in RunStarts(s) : Terminated(s, i) /\ Fits(s, i)
Consumed == stream = <<>> /\ rx_buf = <<>> /\ rx_pc = "read"
IsPrefix(a, b) == Len(a) <= Len(b) /\ a = SubSeq(b, 1, Len(a))

\* C4: of a stream of k delimited lines within capacity, the framer dispatches
\* the k lines in order, each the bytes between its delimiters, however the
\* stream is split across reads: never more than the lines, and all of them
\* once the stream is consumed.
C4_FramerDeliversLines ==
    WellFormed(input) =>
        /\ IsPrefix(emitted, RunsFrom(input, RunStarts(input)))
        /\ Consumed => emitted = RunsFrom(input, RunStarts(input))

C4_Witness ==
    /\ Consumed
    /\ WellFormed(input)
    /\ Len(emitted) = 2
    /\ Len(emitted[1]) = LineBufferSize - 1

\* C5: a line longer than the capacity is never dispatched, whole or cut; the
\* lines dispatched are the delimited lines within capacity, intact, so an
\* oversized line followed by a short line yields the short line alone.
C5_OversizedLineDropped ==
    LET ok == {i \in RunStarts(input) : Terminated(input, i) /\ Fits(input, i)}
    IN (\E i \in RunStarts(input) : ~Fits(input, i)) =>
          /\ IsPrefix(emitted, RunsFrom(input, ok))
          /\ Consumed => emitted = RunsFrom(input, ok)

C5_Witness ==
    /\ Consumed
    /\ \E i \in RunStarts(input) : ~Fits(input, i)
    /\ emitted = <<S_WHO>>

\* who is called for a line, by the rule: the handshake; unless it matched, the
\* registered handlers in order up to the first that claims; the parser if none did
ExpectedCalls(hs, line) ==
    LET claimers == {i \in 1..Len(hs) : HandlerClaims(hs[i], line)}
        first == CHOOSE i \in claimers : \A j \in claimers : i <= j
    IN IF line = S_WHO THEN <<"handle_handshake">>
       ELSE IF claimers = {} THEN <<"handle_handshake">> \o hs \o <<"parse_pc_data">>
       ELSE <<"handle_handshake">> \o SubSeq(hs, 1, first)

\* C6: a dispatched line is handled by the handshake alone when it is
\* WHO_ARE_YOU?, else by the first registered handler that claims it, else by
\* the parser; no handler after the claiming one is called, and only the one
\* that handled the line changes state.
C6_DispatchOrder ==
    [][DispatchStep =>
         /\ calls' = ExpectedCalls(s_handlers, line_buf)
         /\ (hwVars' # hwVars => Last(calls') = "hw_identity_handle_command")
         /\ (imgVars' # imgVars => Last(calls') = "ss_image_handle_command")
         /\ (log_msg' # "" => Last(calls') = "parse_pc_data")
         /\ (Len(calls') = 1 => resp' # <<>>)]_vars

C6_Witness ==
    /\ s_handlers = <<"hw_identity_handle_command", "ss_image_handle_command">>
    /\ calls = <<"handle_handshake", "hw_identity_handle_command">>
    /\ hw_identity # InitIdentity

\* C7: once an upload has ended - IMG_END accepted, IMG_ABORT, or IMG_END with
\* a wrong CRC - the session is Idle and no scratch buffer is live.
C7_SessionCleanup ==
    RespTag \in {"IMG_OK:COMPLETE", "IMG_OK:ABORT", "IMG_ERR:CRC"} =>
        /\ upload_ctx.state = IMG_UPLOAD_IDLE
        /\ upload_ctx.buffer = NULL
        /\ LiveBlocks(heap, "scratch") = {}

C7_Witness ==
    /\ RespTag = "IMG_OK:COMPLETE"
    /\ upload_ctx.received_size = Len(ImgGood)
    /\ files[0] = ImgGood
    /\ loaded_images[0].loaded

\* C8: no block is freed twice, the only live scratch buffer is the one the
\* session points to, and the session never points to a freed block.
C8_FreedExactlyOnce ==
    /\ \A a \in Addrs : heap[a].frees <= 1
    /\ LiveBlocks(heap, "scratch") \subseteq {upload_ctx.buffer}
    /\ upload_ctx.buffer # NULL =>
          Live(heap, upload_ctx.buffer) /\ heap[upload_ctx.buffer].kind = "scratch"

C8_Witness ==
    /\ RespTag = "IMG_OK:ABORT"
    /\ upload_ctx.buffer = NULL
    /\ \E a \in Addrs : heap[a].kind = "scratch" /\ heap[a].frees = 1 /\ ~heap[a].live

\* an IMG_DATA line "IMG_DATA:<decimal offset>:<payload>" and its offset
DataColon(line) ==
    LET cs == {j \in 10..Len(line) : line[j] = ":"}
    IN IF cs = {} THEN 0 ELSE CHOOSE j \in cs : \A k \in cs : j <= k
IsDataLine(line) ==
    /\ StartsWith(line, P_IMG_DATA)
    /\ DataColon(line) > 10
    /\ \A j \in 10..(DataColon(line) - 1) : IsDigit(line[j])
RECURSIVE DecVal(_)
DecVal(ds) == IF ds = <<>> THEN 0 ELSE 10 * DecVal(SubSeq(ds, 1, Len(ds) - 1)) + DigitVal(Last(ds))
DataOffset(line) == DecVal(SubSeq(line, 10, DataColon(line) - 1))
DataPayload(line) == Drop(line, DataColon(line))

\* C9: in state Receiving an IMG_DATA line whose offset is not received_size is
\* answered IMG_ERR:OFFSET and changes neither the session (received_size,
\* CRC, state) nor the heap; a chunk is accepted only at offset received_size,
\* and received_size then advances by its length.
C9_OffsetMismatchRejected ==
    [][(DispatchStep /\ IsDataLine(line_buf) /\ upload_ctx.state = IMG_UPLOAD_RECEIVING) =>
         /\ DataOffset(line_buf) # upload_ctx.received_size =>
               RespTag' = "IMG_ERR:OFFSET" /\ upload_ctx' = upload_ctx /\ heap' = heap
         /\ RespTag' = "IMG_OK:DATA" =>
               /\ DataOffset(line_buf) = upload_ctx.received_size
               /\ upload_ctx'.received_size
                    = upload_ctx.received_size + (Len(DataPayload(line_buf)) \div 2)]_vars

C9_Witness ==
    /\ RespTag = "IMG_ERR:OFFSET"
    /\ upload_ctx.state = IMG_UPLOAD_RECEIVING
    /\ upload_ctx.received_size = Cut
    /\ heap[upload_ctx.buffer].data = SubSeq(ImgGood, 1, Cut)

\* the pixel blocks of the loaded image table
LoadedPixels ==
    [sl \in Slots |-> IF loaded_images[sl].loaded THEN heap[loaded_images[sl].data].data
                      ELSE <<>>]
Visible == <<files, loaded_images, LoadedPixels>>

\* C10: an IMG_END that reaches the CRC comparison (session Receiving, every
\* announced byte received) with a CRC other than the running one is answered
\* IMG_ERR:CRC and leaves the slot files, the loaded image table and its
\* pixels as they were; IMG_BEGIN and IMG_DATA never touch them either, so
\* they are as before the upload began.
C10_CrcMismatchNothingVisible ==
    [][DispatchStep =>
         /\ (StartsWith(line_buf, P_IMG_BEGIN) \/ StartsWith(line_buf, P_IMG_DATA)) =>
               Visible' = Visible
         /\ ( /\ StartsWith(line_buf, P_IMG_END)
              /\ upload_ctx.state = IMG_UPLOAD_RECEIVING
              /\ upload_ctx.received_size = upload_ctx.expected_size
              /\ ScanHex(Drop(line_buf, 8)).ok
              /\ ScanHex(Drop(line_buf, 8)).val # upload_ctx.crc32 ) =>
               RespTag' = "IMG_ERR:CRC" /\ Visible' = Visible]_vars

C10_Witness ==
    /\ RespTag = "IMG_ERR:CRC"
    /\ upload_ctx.received_size = Len(ImgGood)
    /\ upload_ctx.crc32 # crc32_update(U32Zero, ImgGood)
    /\ files[0] = ImgGood
    /\ loaded_images[0].loaded

\* the answers that refuse an upload for what the host sent
HostErrors ==
    {"IMG_ERR:PARSE", "IMG_ERR:SLOT", "IMG_ERR:SIZE", "IMG_ERR:NOBEGIN", "IMG_ERR:OFFSET",
     "IMG_ERR:HEXLEN", "IMG_ERR:OVERFLOW", "IMG_ERR:INCOMPLETE", "IMG_ERR:CRC",
     "IMG_ERR:MAGIC"}

C12_EndReturnsToIdle ==
    [][(DispatchStep /\ StartsWith(line_buf, P_IMG_END)
          /\ upload_ctx.state = IMG_UPLOAD_RECEIVING /\ rx_pc' # "fault")
       => upload_ctx'.state = IMG_UPLOAD_IDLE]_vars

\* an IMG_BEGIN line "IMG_BEGIN:<decimal slot>:<decimal size>" and its fields
BeginColon(line) ==
    LET cs == {j \in 11..Len(line) : line[j] = ":"}
    IN IF cs = {} THEN 0 ELSE CHOOSE j \in cs : \A k \in cs : j <= k
IsBeginLine(line) ==
    /\ StartsWith(line, P_IMG_BEGIN)
    /\ BeginColon(line) > 11 /\ BeginColon(line) < Len(line)
    /\ \A j \in 11..Len(line) : j # BeginColon(line) => IsDigit(line[j])
BeginSlot(line) == DecVal(SubSeq(line, 11, BeginColon(line) - 1))
BeginSize(line) == DecVal(Drop(line, BeginColon(line)))

\* C13: a valid IMG_BEGIN (slot 0..3, header size <= size <= maximum) whose
\* allocation succeeds, in whatever state the session is, leaves a fresh
\* session - Receiving, the slot and size of the line, received_size 0,
\* running CRC 0 - whose buffer is the one live scratch block, empty; an
\* IMG_BEGIN outside these bounds is refused and changes nothing.
C13_BeginStartsFresh ==
    [][(DispatchStep /\ IsBeginLine(line_buf)) =>
         IF BeginSlot(line_buf) < SS_IMG_COUNT
            /\ BeginSize(line_buf) >= SCARAB_IMG_HEADER_SIZE
            /\ BeginSize(line_buf) <= SCARAB_IMG_MAX_SIZE
         THEN /\ RespTag' \in {"IMG_OK:BEGIN", "IMG_ERR:NOMEM"}
              /\ RespTag' = "IMG_OK:BEGIN" =>
                    /\ upload_ctx'.state = IMG_UPLOAD_RECEIVING
                    /\ upload_ctx'.slot = BeginSlot(line_buf)
                    /\ upload_ctx'.expected_size = BeginSize(line_buf)
                    /\ upload_ctx'.received_size = 0
                    /\ upload_ctx'.crc32 = U32Zero
                    /\ LiveBlocks(heap', "scratch") = {upload_ctx'.buffer}
                    /\ heap'[upload_ctx'.buffer].data = <<>>
         ELSE /\ RespTag' \in {"IMG_ERR:SLOT", "IMG_ERR:SIZE"}
              /\ upload_ctx' = upload_ctx /\ heap' = heap]_vars

C13_Witness ==
    /\ RespTag = "IMG_OK:BEGIN"
    /\ upload_ctx.slot = 2
    /\ upload_ctx.expected_size = Len(ImgGood)
    /\ upload_ctx.received_size = 0
    /\ files[0] = ImgGood
    /\ upload_ctx.buffer = 1 /\ Live(heap, 2)

\* the three header checks: magic, 240x240, a supported pixel format
HeaderValid(b) ==
    /\ Len(b) >= SCARAB_IMG_HEADER_SIZE
    /\ HdrMagicOk(b)
    /\ HdrWidth(b) = SCARAB_IMG_WIDTH /\ HdrHeight(b) = SCARAB_IMG_HEIGHT
    /\ HdrFormat(b) \in {SCARAB_FMT_RGB565, SCARAB_FMT_RGB565A8}

\* C14: IMG_END writes the uploaded buffer to the slot's file only when its
\* header has the right magic, a supported format and the 240x240 dimensions:
\* a step that changes a slot file to uploaded bytes writes a valid image.
C14_OnlyValidPersisted ==
    [][\A sl \in Slots :
         (files'[sl] # files[sl] /\ files'[sl] # NoFile /\ files'[sl] # <<>>)
            => HeaderValid(files'[sl])]_vars

\* C15: every change the ingestion task makes to the loaded image table (the
\* free by ss_image_unload, the install by ss_image_load) is made while that
\* task holds the LVGL mutex, so no render task runs inside the change.
C15_TableChangedUnderRenderLock ==
    [][loaded_images' # loaded_images => lvgl_mutex = "rx"]_vars

\* display_update_task acquires the LVGL mutex and sets the mode
EvaluationStep == disp_pc = "lvgl" /\ disp_pc' # "lvgl" /\ lvgl_mutex' = "disp"

\* the mode the thresholds give for elapsed = (uint32_t)(n - l)
ModeFor(n, l) ==
    IF n < l \/ n - l > ScreensaverTicks THEN "Screensaver"
    ELSE IF n - l > StaleTicks THEN "Stale"
    ELSE "Live"

Rank(mode) == IF mode = "Live" THEN 0 ELSE IF mode = "Stale" THEN 1 ELSE 2

C18_TimeoutSkipsCommit ==
    /\ [][(rx_pc = "take" /\ rx_pc' # "take" /\ s_stats_mutex # "free")
           => /\ s_pc_stats' = s_pc_stats
              /\ s_last_data_ms' = s_last_data_ms
              /\ s_stats_mutex' = s_stats_mutex
              /\ committed' = committed
              /\ rx_pc' \in {"read", "byte"}
              /\ log_msg' = "Stats mutex timeout"]_vars
    /\ []((rx_pc = "take" /\ s_stats_mutex = "free") => ENABLED CommitTake)

C18_Witness ==
    /\ s_stats_mutex_timeouts >= 1
    /\ log_msg = "Parsed" /\ rx_pc = "read"
    /\ committed # ZeroStats /\ s_pc_stats = committed
    /\ s_stats_mutex = "free"

\* C19: every acquisition of the stats mutex and of the LVGL mutex by the
\* ingestion and render tasks has a timeout with a skip branch: a task at a
\* take can always go on, by taking the mutex or by skipping at the timeout,
\* whoever holds the mutex.
C19_EveryTakeBounded ==
    /\ (rx_pc = "take" /\ s_stats_mutex_timeouts < MaxTimeouts)
          => ENABLED (CommitTake \/ CommitTimeout)
    /\ disp_pc = "lvgl" => ENABLED (DispLvglTake \/ DispLvglTimeout)
    /\ disp_pc = "idle" => ENABLED DispTake
    /\ timer_pc = "take" => ENABLED (TimerTake \/ TimerTimeout)

Tasks == {"rx", "disp", "timer"}

\* the mutex a task is waiting for, "none" if it is not at a take
Waiting(task) ==
    IF task = "rx" THEN (IF rx_pc = "take" THEN "stats" ELSE "none")
    ELSE IF task = "disp"
    THEN (IF disp_pc = "lvgl" THEN "lvgl" ELSE IF disp_pc = "idle" THEN "stats" ELSE "none")
    ELSE (IF timer_pc = "take" THEN "lvgl" ELSE "none")

Holder(mutex) == IF mutex = "stats" THEN s_stats_mutex ELSE lvgl_mutex

\* a set of tasks each waiting for a mutex that a task of the set holds
Deadlocked(D) == \A task \in D : Waiting(task) # "none" /\ Holder(Waiting(task)) \in D

\* C20: usb_rx_task, display_update_task and lvgl_timer_task never reach a
\* deadlock over the stats mutex and the LVGL mutex, and under fair
\* scheduling a task that starts waiting for a mutex goes on, with the mutex
\* or past its timeout.
C20_NoDeadlockAndProgress ==
    /\ [](\A D \in (SUBSET Tasks) \ {{}} : ~Deadlocked(D))
    /\ (rx_pc = "take") ~> (rx_pc # "take")
    /\ (disp_pc = "lvgl") ~> (disp_pc # "lvgl")
    /\ (disp_pc = "idle") ~> (disp_pc = "copy")
    /\ (timer_pc = "take") ~> (timer_pc # "take")

\* display_update_task holds the LVGL mutex and waits for the stats mutex, which
\* usb_rx_task holds, while lvgl_timer_task waits for the LVGL mutex
C20_Witness ==
    /\ disp_pc = "idle" /\ lvgl_mutex = "disp"
    /\ s_stats_mutex = "rx" /\ rx_pc = "copy"
    /\ timer_pc = "take"

\* the mutexes a task holds
Held(task) ==
    (IF s_stats_mutex = task THEN {"stats"} ELSE {}) \cup
    (IF lvgl_mutex = task THEN {"lvgl"} ELSE {})

\* C23: no task waits for the stats mutex while it holds the LVGL mutex, nor
\* for the LVGL mutex while it holds the stats mutex: a task holds at most one
\* of the two and holds none while it waits at a take.
C23_OneMutexAtATime ==
    \A task \in Tasks :
        /\ Cardinality(Held(task)) <= 1
        /\ Waiting(task) # "none" => Held(task) = {}

\* C22: every frame display_update_task has copied for drawing, before the
\* first commit too, has a RAM total of at least 0.1 (1 tenth), so that the
\* percentage of screen_ram_update never divides by zero.
C22_RamTotalNeverZero ==
    disp_pc = "draw" => local_stats.ram_total_gb >= 1

(***************************************************************************)
(* handle_color_command: a SET_CLR_* line changes gui_settings, saves it   *)
(* and applies the theme under the LVGL mutex, if the take succeeds        *)
(***************************************************************************)
P_SET_CLR_ARC_CPU == <<"S", "E", "T", "_", "C", "L", "R", "_", "A", "R", "C", "_", "C", "P", "U", ":">>

\* (uint32_t)strtoul(hex_str, NULL, 16) after the optional 0x
parse_hex_color(hex_str) ==
    LET s == IF Len(hex_str) >= 2 /\ hex_str[1] = "0" /\ hex_str[2] \in {"x", "X"}
             THEN Drop(hex_str, 2) ELSE hex_str
    IN ScanHex(s).val

\* usb_rx_task hands a SET_CLR_ARC_CPU line to handle_color_command: the field
\* is set and gui_settings_save() writes the file; the handler is then at its
\* xSemaphoreTake(lvgl_mutex, pdMS_TO_TICKS(100))
ColorCommand(line) ==
    /\ rx_pc = "read"
    /\ StartsWith(line, P_SET_CLR_ARC_CPU)
    /\ gui_settings' = parse_hex_color(Drop(line, 16))
    /\ gui_file' = gui_settings'
    /\ rx_pc' = "theme_take"
    /\ UNCHANGED <<lvgl_mutex, timer_pc, is_screensaver_active, red_dots, now, last_seen,
                   mode_stamp, prev_mode, ss_call, ui_theme, epoch, envVars, rx_buf,
                   line_buf, is_discarding, s_handlers, telVars, dispVars, imgVars,
                   hwVars, histVars, emitted>>

\* the take succeeded
ThemeTake ==
    /\ rx_pc = "theme_take"
    /\ lvgl_mutex = "free"
    /\ lvgl_mutex' = "rx"
    /\ rx_pc' = "theme_apply"
    /\ UNCHANGED <<timer_pc, is_screensaver_active, red_dots, now, last_seen,
                   mode_stamp, prev_mode, ss_call, extraVars, envVars, rx_buf,
                   line_buf, is_discarding, s_handlers, telVars, dispVars, imgVars,
                   hwVars, histVars, emitted>>

\* the take timed out, the mutex was held for the whole 100 ms: the handler returns
ThemeTimeout ==
    /\ rx_pc = "theme_take"
    /\ lvgl_mutex # "free"
    /\ rx_pc' = "read"
    /\ UNCHANGED <<uiVars, envVars, rx_buf, line_buf, is_discarding, s_handlers, telVars,
                   dispVars, imgVars, hwVars, histVars, emitted>>

\* gui_apply_theme(); xSemaphoreGive(lvgl_mutex);
ThemeApply ==
    /\ rx_pc = "theme_apply"
    /\ ui_theme' = gui_settings
    /\ lvgl_mutex' = "free"
    /\ rx_pc' = "read"
    /\ UNCHANGED <<timer_pc, is_screensaver_active, red_dots, now, last_seen,
                   mode_stamp, prev_mode, ss_call, gui_settings, gui_file, epoch, envVars,
                   rx_buf, line_buf, is_discarding, s_handlers, telVars, dispVars,
                   imgVars, hwVars, histVars, emitted>>

ThemeStep ==
    \/ ThemeTake
    \/ ThemeTimeout
    \/ ThemeApply

\* the colour commands the host sends
ColorLines == {P_SET_CLR_ARC_CPU \o <<"F", "F", "0", "0", "0", "0">>,
               P_SET_CLR_ARC_CPU \o <<"0", "x", "0", "0", "7", "1", "C", "5">>}

\* colour commands arriving, whenever the host chooses to send one, while
\* display_update_task and lvgl_timer_task run
NextTheme ==
    \/ \E line \in ColorLines : ColorCommand(line)
    \/ ThemeStep
    \/ DispStep
    \/ TimerStep

\* the scheduler runs every task that can run; the host is free to stay silent
ThemeFairness ==
    /\ WF_vars(ThemeStep)
    /\ WF_vars(DispStep)
    /\ SF_vars(DispTake)
    /\ WF_vars(TimerStep)

SpecTheme == InitSystem /\ [][NextTheme]_vars /\ ThemeFairness

\* C21: a colour command whose handler could not take the LVGL mutex within
\* 100 ms has still saved the change, and the theme on screen becomes the
\* changed gui_settings by a later render cycle, without a further command:
\* with usb_rx_task back at its read and the host silent, the screen catches up.
C21_DeferredThemeApplied ==
    /\ [](rx_pc = "read" => gui_file \in {NoFile, gui_settings})
    /\ ((rx_pc = "read" /\ ui_theme # gui_settings)
            ~> (ui_theme = gui_settings \/ rx_pc # "read"))

\* C24: show_screensavers() and hide_screensavers() are called only by an
\* evaluation whose should_screensave differs from is_screensaver_active, which
\* then takes the computed value; an evaluation that computes the value the flag
\* has calls neither, and so does a cycle skipped at the LVGL mutex, which
\* leaves the flag as it is; no other step touches the flag or the overlays.
C24_OverlaysOnlyOnChange ==
    [][ /\ EvaluationStep =>
            /\ (ss_call' # "none") <=> (should_screensave # is_screensaver_active)
            /\ ss_call' = "show" => (should_screensave /\ is_screensaver_active')
            /\ ss_call' = "hide" => (~should_screensave /\ ~is_screensaver_active')
            /\ is_screensaver_active' = should_screensave
        /\ ~EvaluationStep =>
            /\ is_screensaver_active' = is_screensaver_active
            /\ ss_call' \in {ss_call, "none"} ]_vars

\* an evaluation found the screensaver on and due, and called nothing; one
\* before it had shown the overlays
C24_Witness ==
    /\ lvgl_mutex = "disp"
    /\ prev_mode = "Screensaver"
    /\ is_screensaver_active
    /\ ss_call = "none"

(***************************************************************************)
(* The tasks running when the uint32_t millisecond clock is about to wrap  *)
(***************************************************************************)
\* the clock's value when usb_rx_task and display_update_task have started:
\* one or two ticks before the wrap
WrapEpochs == {ClockMod - 2, ClockMod - 1}

InitWrap ==
    /\ InitCommon
    /\ disp_pc = "now"
    /\ now = 0
    /\ epoch \in WrapEpochs
    /\ input = <<>>
    /\ stream = <<>>
    /\ rx_pc = "read"
    /\ s_handlers = Registered

\* display_update_task with nobody else at the LVGL mutex
DispCycle ==
    \/ DispNow
    \/ DispElapsed
    \/ DispLvglTake
    \/ DispTake
    \/ DispCopy
    \/ DispGive
    \/ DispDrawHeld
    \/ DispLvglGive

NextWrap ==
    \/ \E line \in UiLines : RxLine(line)
    \/ Dispatch
    \/ CommitStep
    \/ DispCycle

SpecWrap == InitWrap /\ [][NextWrap]_vars

\* the step of parse_pc_data that stamps the commit, under the stats mutex
StampStep == rx_pc = "copy" /\ rx_pc' = "give" /\ s_stats_mutex = "rx"

SCREENSAVER_TIMEOUT_MS == 30000
STALE_DATA_THRESHOLD_MS == 2000

\* a + d and a - b in uint32_t, a and b as <<high 16 bits, low 16 bits>>, d < 2^16
Add32(a, d) == <<(a[1] + ((a[2] + d) \div 65536)) % 65536, (a[2] + d) % 65536>>
Sub32Pair(a, b) ==
    <<(a[1] - b[1] - (IF a[2] < b[2] THEN 1 ELSE 0) + 65536) % 65536,
      (a[2] - b[2] + 65536) % 65536>>

\* a stamp taken up to MaxNow ms before the 32-bit clock wraps, and the clock
\* read at a threshold or one ms past it later: the difference is that time
ElapsedAtFullWidth ==
    \A k \in 0..MaxNow :
        \A d \in {0, STALE_DATA_THRESHOLD_MS, STALE_DATA_THRESHOLD_MS + 1,
                  SCREENSAVER_TIMEOUT_MS, SCREENSAVER_TIMEOUT_MS + 1} :
            LET stamp == <<65535, 65535 - k>>
            IN /\ d > k => Add32(stamp, d)[1] = 0
               /\ Sub32Pair(Add32(stamp, d), stamp) = <<0, d>>

\* C30: elapsed = now - last_data_ms in uint32_t arithmetic is the true time
\* between the commit and the read of the clock, also when the clock has wrapped
\* in between, and the mode an evaluation sets is the one that true time gives:
\* the wrap alone changes nothing.
C30_ElapsedSurvivesWrap ==
    /\ [][(EvaluationStep /\ now >= last_seen) =>
            /\ Sub32(U32(now), U32(last_seen)) = now - last_seen
            /\ data_is_stale <=> (now - last_seen > StaleTicks)
            /\ should_screensave <=> (now - last_seen > ScreensaverTicks)
            /\ UiMode' = ModeFor(now, last_seen)]_vars
    /\ []ElapsedAtFullWidth

\* an evaluation with the wrap between the stamp it read and its clock read,
\* one tick apart: Stale, not Screensaver
C30_Witness ==
    /\ lvgl_mutex = "disp"
    /\ now > last_seen
    /\ U32(now) < U32(last_seen)
    /\ now - last_seen <= ScreensaverTicks
    /\ UiMode = "Stale"

\* C28: an evaluation whose stamp is no older than the screensaver timeout,
\* counted from its read of the clock, does not compute an elapsed above the
\* timeout and does not show the screensaver; this includes the stamp of a
\* commit that landed between the read of now and the read of last_data_ms.
C28_FreshDataNeverScreensaves ==
    [][(EvaluationStep /\ now - last_seen <= ScreensaverTicks) =>
         /\ Sub32(U32(now), U32(last_seen)) <= ScreensaverTicks
         /\ ~should_screensave
         /\ ss_call' # "show"]_vars

\* how many known keys occur in the line
NDistinctKeys(line) == Cardinality({k \in Keys : TokensOf(line, k) # {}})

\* C29: a line in which fewer than 5 distinct known keys occur does not reach
\* the commit of parse_pc_data, however many of its tokens are recognized: one
\* that repeats a key five times is discarded as an incomplete frame.
C29_DistinctKeysCommit ==
    [][(DispatchStep /\ ~handle_handshake(line_buf) /\ NDistinctKeys(line_buf) < 5)
       => (rx_pc' # "take" /\ s_pc_stats' = s_pc_stats)]_vars

\* an IMG_DATA line is dispatched
DataStep == DispatchStep /\ StartsWith(line_buf, P_IMG_DATA)
\* the bytes the hex part of an IMG_DATA line stands for
DataLen(line) == Len(Drop(line, StrChrColon(line, 10))) \div 2

\* the bounds of the session: received_size <= expected_size <= maximum size
SessionBounds ==
    /\ upload_ctx.received_size <= upload_ctx.expected_size
    /\ upload_ctx.expected_size <= SCARAB_IMG_MAX_SIZE

\* a chunk at the right offset that would pass expected_size is answered
\* IMG_ERR:OVERFLOW, and that answer leaves the session and the heap as they were
OverflowRefused ==
    /\ (/\ upload_ctx.state = IMG_UPLOAD_RECEIVING
        /\ ScanULong(Drop(line_buf, 9)).ok
        /\ StrChrColon(line_buf, 10) # 0
        /\ ScanULong(Drop(line_buf, 9)).val = upload_ctx.received_size
        /\ Len(Drop(line_buf, StrChrColon(line_buf, 10))) % 2 = 0
        /\ upload_ctx.received_size + DataLen(line_buf) > upload_ctx.expected_size)
       => RespTag' = "IMG_ERR:OVERFLOW"
    /\ RespTag' = "IMG_ERR:OVERFLOW" => (upload_ctx' = upload_ctx /\ heap' = heap)

\* a chunk that is stored goes into the live scratch buffer of the session,
\* behind the bytes received so far and within the first expected_size bytes
StoredInsideBuffer ==
    (rx_pc' = "fault" \/ upload_ctx' # upload_ctx \/ heap' # heap) =>
        /\ rx_pc' # "fault"
        /\ Live(heap, upload_ctx.buffer)
        /\ upload_ctx'.buffer = upload_ctx.buffer
        /\ Len(heap'[upload_ctx.buffer].data) = upload_ctx'.received_size
        /\ Len(heap'[upload_ctx.buffer].data) <= upload_ctx.expected_size
        /\ \A p \in DOMAIN heap : p # upload_ctx.buffer => heap'[p] = heap[p]

\* C26: received_size <= expected_size <= the maximum image size in every
\* state of the session, and IMG_DATA writes only inside the first
\* expected_size bytes of the scratch buffer: a chunk that would pass the end
\* is answered IMG_ERR:OVERFLOW and changes neither received_size, the running
\* CRC nor the buffer.
C26_WritesWithinExpected ==
    /\ []SessionBounds
    /\ [][DataStep => (OverflowRefused /\ StoredInsideBuffer)]_vars

\* the bounds and the refusal alone, which do not depend on the buffer being there
BoundsAndOverflow ==
    /\ []SessionBounds
    /\ [][DataStep => OverflowRefused]_vars

\* a chunk at the right offset was refused for passing the end
OverflowSeen == RespTag = "IMG_ERR:OVERFLOW" /\ upload_ctx.received_size > 0

\* C27: whenever the session is Receiving its scratch buffer is allocated, not
\* NULL and not freed, so that IMG_DATA never stores through a null or freed
\* pointer; an IMG_BEGIN that fails while a session is in flight does not
\* leave a Receiving session without a buffer.
C27_ReceivingHasBuffer ==
    /\ rx_pc # "fault"
    /\ upload_ctx.state = IMG_UPLOAD_RECEIVING => Live(heap, upload_ctx.buffer)

====
